---- MODULE Spec2Model ----
(***************************************************************************)
(* State-machine model of the Digital FTE pipeline: the vault folders, the *)
(* orchestrator (process_action / execute_approved), the daily send        *)
(* counter and log, the quarantine helpers, claim-by-move and the web      *)
(* approve / reject handlers.                                              *)
(***************************************************************************)
EXTENDS Integers, Sequences, FiniteSets, Bags, TLC

\* ---------------------------------------------------------------- bounds
MaxNow == 1
MaxCreated == 1
MaxFaults == 1
MaxLimit == 1
MaxAttempts == 3

\* ------------------------------------------------------------ vocabulary
Folders == {"Needs_Action", "Pending_Approval", "Approved", "Rejected", "Done", "Quarantine"}

\* A filename "<prefix>-<id>.md" is the pair <<prefix, id>>.
ActionNames == {<<"email", 1>>, <<"file", 2>>}

Priorities == {"high", "normal", "low"}

\* Confidence and threshold in hundredths.
Confidences == {40, 100}
Thresholds == {50, 100}
Zones == {"local", "cloud"}

\* What the assistant's answer holds: no reply draft, a BEGIN marker only,
\* or a complete BEGIN/END block; and the confidence it states.
Responses == [reply : {"none", "open", "full"}, conf : Confidences]

VARIABLES
    now,        \* the UTC clock, in calendar days
    zone,       \* cfg.work_zone of the process
    threshold,  \* cfg.auto_approve_threshold
    limit,      \* Orchestrator.daily_send_limit
    fs,         \* folder -> (filename -> content)
    nCreated,   \* number of artifacts the watchers have materialized
    countFile,  \* today's .send_count file: <<>> (absent) or <<count>>
    log,        \* today's log file: the bag of its entries
    mailUp,     \* whether the mail provider will accept the next send
    faults,     \* number of failures of the mail provider so far
    sends,      \* what the mail provider has accepted: <<plan, day>>
    attempts,   \* number of send_reply calls made
    pc,         \* position of the main thread
    queue,      \* the listing the running loop iterates over
    resp,       \* process_action's claude_response
    ret,        \* what the last finished operation was and returned
    arg,        \* file the running queue_failed_action works on
    pq,         \* min_age_seconds and start time of the running process_quarantine
    memory,     \* Agent_Memory.md: the sequence of its lines, <<>> if absent
    review,     \* review_rejected's assistant output
    rt,         \* the running with_retry wrapper: arguments, loop state, history
    doc,        \* one artifact's text on its way through Quarantine and back
    inProgress, \* In_Progress/<agent>/ folders and the running claim_to_in_progress calls
    board,      \* Dashboard.md, Updates/ and the running merge_updates
    watcher,    \* one watcher instance, its source and its running run_once
    ralph,      \* the running run_ralph_loop
    journal,    \* today's log file as a list, and the threads inside log_action
    senders,    \* the two senders sharing one .send_count file
    peer,       \* two processes running process_action on one vault
    store       \* the vault root as setup_vault finds and leaves it

\* The state of the helpers the daemon's loop does not touch.
sideVars == <<inProgress, board, watcher, ralph>>

lateVars == <<journal, senders, peer, store>>

auxVars == <<memory, review, rt, doc, sideVars, lateVars>>

pipelineVars == <<now, zone, threshold, limit, fs, nCreated, countFile, log, mailUp,
                  faults, sends, attempts, pc, queue, resp, ret, arg, pq>>

helperVars == <<memory, review, rt, doc, lateVars>>

settledVars == <<memory, review, rt, doc, sideVars>>

vars == <<now, zone, threshold, limit, fs, nCreated, countFile, log, mailUp, faults,
          sends, attempts, pc, queue, resp, ret, arg, pq, auxVars>>

NoName == <<"", 0>>

\* ------------------------------------------------------------ filesystem
Exists(folder, name) == name \in DOMAIN fs[folder]

Put(dir, name, content) ==
    [n \in (DOMAIN dir) \cup {name} |-> IF n = name THEN content ELSE dir[n]]

Remove(dir, name) == [n \in (DOMAIN dir) \ {name} |-> dir[n]]

\* Path.write_text: creates or overwrites.
WriteText(f, folder, name, content) ==
    [f EXCEPT ![folder] = Put(@, name, content)]

\* Path.unlink
Unlink(f, folder, name) == [f EXCEPT ![folder] = Remove(@, name)]

\* os.rename / shutil.move on one filesystem: atomic, replaces the target.
\* A move that forgets to remove the original.
CopyTo(f, from, to, name) == [f EXCEPT ![to] = Put(@, name, f[from][name])]

Rename(f, from, to, name) ==
    [f EXCEPT ![from] = Remove(@, name), ![to] = Put(@, name, f[from][name])]

\* ------------------------------------------------------------- filenames
PrefixRank(p) == CASE p = "email" -> 1 [] p = "file" -> 2 [] p = "plan" -> 3 [] OTHER -> 0

\* String order of two filenames.
NameLess(a, b) ==
    \/ PrefixRank(a[1]) < PrefixRank(b[1])
    \/ PrefixRank(a[1]) = PrefixRank(b[1]) /\ a[2] < b[2]

RECURSIVE SortedNames(_)
\* sorted(folder.glob("*.md"))
SortedNames(S) ==
    IF S = {} THEN <<>>
    ELSE LET m == CHOOSE x \in S : \A y \in S \ {x} : NameLess(x, y)
         IN <<m>> \o SortedNames(S \ {m})

\* action_file.name.replace("email-", "plan-")
PlanNameOf(name) == IF name[1] = "email" THEN <<"plan", name[2]>> ELSE name

PlanNames == {PlanNameOf(n) : n \in ActionNames}
AllNames == ActionNames \cup PlanNames

\* The artifact a plan was made from.
SourceOf(plan) == CHOOSE a \in ActionNames : PlanNameOf(a) = plan

\* ---------------------------------------------------------------- content
ActionContent(prio) ==
    [type |-> "action", priority |-> prio, source |-> NoName, action |-> "none",
     reply |-> "none", qtime |-> <<>>]

\* A file in Needs_Action whose bytes are not valid UTF-8 (a FileWatcher
\* copy of a binary drop, a half-synced file).
Garbled ==
    [type |-> "garbled", priority |-> "none", source |-> NoName, action |-> "none",
     reply |-> "none", qtime |-> <<>>]

\* Whether read_text(encoding="utf-8") returns for a file.
Readable(content) == content.type # "garbled"

\* The plan process_action builds: its header and whether its body holds a
\* reply block.  No code reads anything else of the body.
PlanContent(name, r) ==
    [type |-> "plan", priority |-> "none", source |-> name,
     action |-> IF r.reply # "none" THEN "reply" ELSE "none",
     reply |-> r.reply, qtime |-> <<>>]

\* What a plan's body can hold of a reply block: no marker, the BEGIN marker
\* only, both markers in order, or both with END before BEGIN.
ReplyKinds == {"none", "open", "full", "swapped"}

\* extract_reply_block: None if either marker is missing (find() = -1);
\* otherwise the text between them, which is empty when END precedes BEGIN.
HasReplyBlock(content) == content.reply \in {"full", "swapped"}

\* A plan as a human may have left it in Approved: any action field, any body.
ApprovedContents(name) ==
    {[type |-> "plan", priority |-> "none", source |-> name, action |-> a,
      reply |-> k, qtime |-> <<>>] : a \in {"none", "reply"}, k \in ReplyKinds}

\* ------------------------------------------------------------------ logs
Entry(actor, action, source) == [actor |-> actor, action |-> action, source |-> source]

\* A log_action that writes nothing.
LogNothing(l, actor, action, source) == l

\* log_action: read today's file, add one entry, rewrite.  The log is kept
\* as the bag of its entries: how many of each it holds.
LogAction(l, actor, action, source) == l (+) SetToBag({Entry(actor, action, source)})

\* --------------------------------------------------------- rate counter
CountOf(c) == IF c = <<>> THEN 0 ELSE c[1]

check_send_limit(c, lim) == IF c = <<>> THEN TRUE ELSE c[1] < lim

\* An increment that is lost.
KeepCount(c) == c

increment_send_count(c) == <<CountOf(c) + 1>>

\* ------------------------------------------------------------ orchestrator
get_pending_actions == SortedNames(DOMAIN fs["Needs_Action"])

get_approved_actions == SortedNames(DOMAIN fs["Approved"])

NoResp == [reply |-> "none", conf |-> 0]

NoRet == [op |-> "none", folder |-> "", name |-> NoName]

Ret(op, folder, name) == [op |-> op, folder |-> folder, name |-> name]

NoPq == [min_age |-> 0, start |-> 0, moved |-> <<>>]

\* A line of the Memory file: the header setup_vault seeds, or a learning.
MemoryHeader == [kind |-> "header", ts |-> 0, text |-> "# Agent Memory"]

\* No with_retry wrapper is running.
NoRt == [status |-> "idle"]

\* No artifact is under way through Quarantine.
NoDoc == [status |-> "none"]

\* ------------------------------------------------------------------ init
\* Everything but the vault's content at start.
\* Nothing claimed, no dashboard traffic, no watcher polling, no loop running.
NoClaims == [status |-> "none"]
NoBoard == [status |-> "none"]
NoWatcher == [status |-> "none"]
NoRalph == [status |-> "none"]
NoJournal == [status |-> "none"]
NoSenders == [status |-> "none"]
NoPeer == [status |-> "none"]
NoStore == [status |-> "none"]

InitProcess ==
    /\ now = 0
    /\ zone \in Zones
    /\ threshold \in Thresholds
    /\ limit \in 0..MaxLimit
    /\ nCreated = 0
    /\ countFile = <<>>
    /\ log = EmptyBag
    /\ mailUp = TRUE
    /\ faults = 0
    /\ sends = <<>>
    /\ attempts = 0
    /\ pc = "idle"
    /\ queue = <<>>
    /\ resp = NoResp
    /\ ret = NoRet
    /\ arg = NoName
    /\ pq = NoPq
    /\ memory = <<MemoryHeader>>
    /\ review = ""
    /\ rt = NoRt
    /\ doc = NoDoc
    /\ inProgress = NoClaims
    /\ board = NoBoard
    /\ watcher = NoWatcher
    /\ ralph = NoRalph
    /\ journal = NoJournal
    /\ senders = NoSenders
    /\ peer = NoPeer
    /\ store = NoStore

\* The process starts on a fresh vault.
Init ==
    /\ InitProcess
    /\ fs = [f \in Folders |-> <<>>]

\* The process starts on a vault in which one artifact is waiting in
\* Needs_Action already.
InitBacklog ==
    /\ InitProcess
    /\ \E name \in ActionNames, prio \in Priorities :
        fs = WriteText([f \in Folders |-> <<>>], "Needs_Action", name, ActionContent(prio))

\* ----------------------------------------------------------- environment
\* Midnight passes: the new day's log and counter files do not exist yet;
\* nothing reads or writes an earlier day's files again.
Tick ==
    /\ now < MaxNow
    /\ now' = now + 1
    /\ log' = EmptyBag
    /\ countFile' = <<>>
    /\ UNCHANGED <<zone, threshold, limit, fs, nCreated, mailUp, faults, sends,
                   attempts, pc, queue, resp, ret, arg, pq>>
    /\ UNCHANGED auxVars

\* The mail provider fails: the next send_reply call will raise.  The
\* failure is transient, it costs one call.
MailDown ==
    /\ pc \in {"idle", "pending", "approved"}
    /\ mailUp
    /\ faults < MaxFaults
    /\ faults' = faults + 1
    /\ mailUp' = FALSE
    /\ UNCHANGED <<now, zone, threshold, limit, fs, nCreated, countFile, log,
                   sends, attempts, pc, queue, resp, ret, arg, pq>>
    /\ UNCHANGED auxVars

\* The watcher a filename's prefix belongs to.
WatcherOf(name) == IF name[1] = "email" THEN "gmail_watcher" ELSE "file_watcher"

\* A watcher's create_action_file: it materializes a detection as an
\* artifact of Needs_Action (priority: normal) and logs it.  The
\* filename derives from the mail (subject, id) or from the dropped file's
\* name, so the same name comes again when the source presents the same
\* item again.
create_action_file ==
    /\ pc = "idle"
    /\ nCreated < MaxCreated
    /\ nCreated' = nCreated + 1
    /\ \E name \in ActionNames :
        /\ fs' = WriteText(fs, "Needs_Action", name, ActionContent("normal"))
        /\ log' = LogAction(log, WatcherOf(name), "detected", name)
    /\ UNCHANGED <<now, zone, threshold, limit, countFile, mailUp, faults,
                   sends, attempts, pc, queue, resp, ret, arg, pq>>
    /\ UNCHANGED auxVars

\* pull_vault: git pull brings in an artifact the peer agent wrote into
\* Needs_Action, with whatever priority the peer gave it.
pull_vault ==
    /\ pc = "idle"
    /\ nCreated < MaxCreated
    /\ nCreated' = nCreated + 1
    /\ \E name \in ActionNames, prio \in Priorities :
        fs' = WriteText(fs, "Needs_Action", name, ActionContent(prio))
    /\ UNCHANGED <<now, zone, threshold, limit, countFile, log, mailUp, faults,
                   sends, attempts, pc, queue, resp, ret, arg, pq>>
    /\ UNCHANGED auxVars

\* ------------------------------------------------------------- the cycle
StartCycle ==
    /\ pc = "idle"
    /\ queue' = get_pending_actions
    /\ pc' = "pending"
    /\ UNCHANGED <<now, zone, threshold, limit, fs, nCreated, countFile, log,
                   mailUp, faults, sends, attempts, resp, ret, arg, pq>>
    /\ UNCHANGED auxVars

\* for action_file in get_pending_actions(): exhausted, go on to Approved
PendingDone ==
    /\ pc = "pending"
    /\ queue = <<>>
    /\ queue' = get_approved_actions
    /\ resp' = NoResp
    /\ ret' = NoRet
    /\ pc' = "approved"
    /\ UNCHANGED <<now, zone, threshold, limit, fs, nCreated, countFile, log,
                   mailUp, faults, sends, attempts, arg, pq>>
    /\ UNCHANGED auxVars

\* Variant: every plan is approved as it is written, no gate at all.
PlanFolderUngated(r) == "Approved"

\* Variant: a plan whose confidence reaches the threshold is approved as it
\* is written.
PlanFolderAtThreshold(r) ==
    IF r.conf >= threshold THEN "Approved" ELSE "Pending_Approval"

\* Where process_action puts the plan it wrote: self.pending_approval.
PlanFolder(r) == "Pending_Approval"

\* process_action's first statement, action_file.read_text(encoding="utf-8"),
\* raises on such a file; nothing in process_action or in the loop around
\* it catches the exception, so the main thread ends.
PA_Raise ==
    /\ pc = "pending"
    /\ queue # <<>>
    /\ ~Readable(fs["Needs_Action"][Head(queue)])
    /\ pc' = "crashed"
    /\ UNCHANGED <<now, zone, threshold, limit, fs, nCreated, countFile, log,
                   mailUp, faults, sends, attempts, queue, resp, ret, arg, pq>>
    /\ UNCHANGED auxVars

\* process_action, first part: read the artifact, ask the assistant, write
\* the plan.
PA_Write ==
    /\ pc = "pending"
    /\ queue # <<>>
    /\ Readable(fs["Needs_Action"][Head(queue)])
    /\ \E r \in Responses :
        /\ resp' = r
        /\ fs' = WriteText(fs, PlanFolder(r), PlanNameOf(Head(queue)),
                           PlanContent(Head(queue), r))
    /\ ret' = NoRet
    /\ pc' = "pa_unlink"
    /\ UNCHANGED <<now, zone, threshold, limit, nCreated, countFile, log,
                   mailUp, faults, sends, attempts, queue, arg, pq>>
    /\ UNCHANGED auxVars

\* process_action: action_file.unlink()
PA_Unlink ==
    /\ pc = "pa_unlink"
    /\ fs' = Unlink(fs, "Needs_Action", Head(queue))
    /\ pc' = "pa_log"
    /\ UNCHANGED <<now, zone, threshold, limit, nCreated, countFile, log,
                   mailUp, faults, sends, attempts, queue, resp, ret, arg, pq>>
    /\ UNCHANGED auxVars

\* process_action: log plan_created and return the plan path.
PA_Log ==
    /\ pc = "pa_log"
    /\ log' = LogAction(log, "orchestrator", "plan_created", Head(queue))
    /\ ret' = Ret("process_action", PlanFolder(resp), PlanNameOf(Head(queue)))
    /\ queue' = Tail(queue)
    /\ pc' = "pending"
    /\ UNCHANGED <<now, zone, threshold, limit, fs, nCreated, countFile,
                   mailUp, faults, sends, attempts, resp, arg, pq>>
    /\ UNCHANGED auxVars

\* for approved_file in get_approved_actions(): exhausted, the cycle ends
ApprovedDone ==
    /\ pc = "approved"
    /\ queue = <<>>
    /\ pc' = "idle"
    /\ ret' = NoRet
    /\ UNCHANGED <<now, zone, threshold, limit, fs, nCreated, countFile, log,
                   mailUp, faults, sends, attempts, queue, resp, arg, pq>>
    /\ UNCHANGED auxVars

\* execute_approved up to the send: parse the header; for a reply plan gate
\* on the quota, then look for the reply block (none: move to Done).
EA_Begin ==
    /\ pc = "approved"
    /\ queue # <<>>
    /\ LET f == Head(queue)
           metadata == fs["Approved"][f]
       IN IF metadata.action = "reply"
          THEN IF ~check_send_limit(countFile, limit)
               THEN /\ ret' = Ret("execute_approved", "Approved", f)
                    /\ queue' = Tail(queue)
                    /\ pc' = "approved"
                    /\ fs' = fs
               ELSE IF ~HasReplyBlock(metadata)
                    THEN /\ fs' = Rename(fs, "Approved", "Done", f)
                         /\ pc' = "ea_log_reply_failed"
                         /\ UNCHANGED <<ret, queue>>
                    ELSE /\ pc' = "ea_send"
                         /\ UNCHANGED <<ret, queue, fs>>
          ELSE /\ pc' = "ea_move"
               /\ UNCHANGED <<ret, queue, fs>>
    /\ UNCHANGED <<now, zone, threshold, limit, nCreated, countFile, log,
                   mailUp, faults, sends, attempts, resp, arg, pq>>
    /\ UNCHANGED auxVars

\* execute_approved: log reply_failed, return the Done path.
EA_LogReplyFailed ==
    /\ pc = "ea_log_reply_failed"
    /\ log' = LogAction(log, "orchestrator", "reply_failed", Head(queue))
    /\ ret' = Ret("execute_approved", "Done", Head(queue))
    /\ queue' = Tail(queue)
    /\ pc' = "approved"
    /\ UNCHANGED <<now, zone, threshold, limit, fs, nCreated, countFile,
                   mailUp, faults, sends, attempts, resp, arg, pq>>
    /\ UNCHANGED auxVars

\* execute_approved without its except branch's return: a failed send is
\* taken for a successful one.
EA_SendIgnoresFailure ==
    /\ pc = "ea_send"
    /\ attempts' = attempts + 1
    /\ sends' = IF mailUp THEN Append(sends, <<Head(queue), now>>) ELSE sends
    /\ mailUp' = TRUE
    /\ pc' = "ea_incr"
    /\ UNCHANGED <<now, zone, threshold, limit, fs, nCreated, countFile, log,
                   faults, queue, resp, ret, arg, pq>>
    /\ UNCHANGED auxVars

\* execute_approved: send_reply; an exception leads to the except branch.
EA_Send ==
    /\ pc = "ea_send"
    /\ attempts' = attempts + 1
    /\ IF mailUp
       THEN /\ sends' = Append(sends, <<Head(queue), now>>)
            /\ mailUp' = mailUp
            /\ pc' = "ea_incr"
       ELSE /\ sends' = sends
            /\ mailUp' = TRUE
            /\ pc' = "ea_log_send_failed"
    /\ UNCHANGED <<now, zone, threshold, limit, fs, nCreated, countFile, log,
                   faults, queue, resp, ret, arg, pq>>
    /\ UNCHANGED auxVars

\* execute_approved: increment_send_count(self.logs)
EA_Incr ==
    /\ pc = "ea_incr"
    /\ countFile' = increment_send_count(countFile)
    /\ pc' = "ea_log_sent"
    /\ UNCHANGED <<now, zone, threshold, limit, fs, nCreated, log, mailUp,
                   faults, sends, attempts, queue, resp, ret, arg, pq>>
    /\ UNCHANGED auxVars

\* execute_approved: log email_sent
EA_LogSent ==
    /\ pc = "ea_log_sent"
    /\ log' = LogAction(log, "orchestrator", "email_sent", Head(queue))
    /\ pc' = "ea_move"
    /\ UNCHANGED <<now, zone, threshold, limit, fs, nCreated, countFile,
                   mailUp, faults, sends, attempts, queue, resp, ret, arg, pq>>
    /\ UNCHANGED auxVars

\* execute_approved, except branch: log send_failed, return the input path.
EA_LogSendFailed ==
    /\ pc = "ea_log_send_failed"
    /\ log' = LogAction(log, "orchestrator", "send_failed", Head(queue))
    /\ ret' = Ret("execute_approved", "Approved", Head(queue))
    /\ queue' = Tail(queue)
    /\ pc' = "approved"
    /\ UNCHANGED <<now, zone, threshold, limit, fs, nCreated, countFile,
                   mailUp, faults, sends, attempts, resp, arg, pq>>
    /\ UNCHANGED auxVars

\* execute_approved: shutil.move(approved_file, self.done / name)
EA_Move ==
    /\ pc = "ea_move"
    /\ fs' = Rename(fs, "Approved", "Done", Head(queue))
    /\ pc' = "ea_log_executed"
    /\ UNCHANGED <<now, zone, threshold, limit, nCreated, countFile, log,
                   mailUp, faults, sends, attempts, queue, resp, ret, arg, pq>>
    /\ UNCHANGED auxVars

\* execute_approved: log executed, return the Done path.
EA_LogExecuted ==
    /\ pc = "ea_log_executed"
    /\ log' = LogAction(log, "orchestrator", "executed", Head(queue))
    /\ ret' = Ret("execute_approved", "Done", Head(queue))
    /\ queue' = Tail(queue)
    /\ pc' = "approved"
    /\ UNCHANGED <<now, zone, threshold, limit, fs, nCreated, countFile,
                   mailUp, faults, sends, attempts, resp, arg, pq>>
    /\ UNCHANGED auxVars

\* ------------------------------------------------------------ web handlers
\* POST /approve/{filename}
approve_action ==
    \E name \in DOMAIN fs["Pending_Approval"] :
        /\ fs' = Rename(fs, "Pending_Approval", "Approved", name)
        /\ log' = LogAction(log, "web_dashboard", "approved", name)
        /\ UNCHANGED <<now, zone, threshold, limit, nCreated, countFile,
                       mailUp, faults, sends, attempts, pc, queue, resp, ret,
                       arg, pq>>
    /\ UNCHANGED auxVars

\* POST /reject/{filename}
reject_action ==
    \E name \in DOMAIN fs["Pending_Approval"] :
        /\ fs' = Rename(fs, "Pending_Approval", "Rejected", name)
        /\ log' = LogAction(log, "web_dashboard", "rejected", name)
        /\ UNCHANGED <<now, zone, threshold, limit, nCreated, countFile,
                       mailUp, faults, sends, attempts, pc, queue, resp, ret,
                       arg, pq>>
    /\ UNCHANGED auxVars

\* A POST /approve/{filename} or /reject/{filename} request for any name,
\* with what the handler answers: {"error": ...} when the plan is not in
\* Pending_Approval, else the move, the log entry and the redirect.
web_request(handler, to, action, name) ==
    /\ pc = "idle"
    /\ IF ~Exists("Pending_Approval", name)
       THEN /\ ret' = Ret("error", "Pending_Approval", name)
            /\ fs' = fs
            /\ log' = log
       ELSE /\ ret' = Ret(handler, to, name)
            /\ fs' = Rename(fs, "Pending_Approval", to, name)
            /\ log' = LogAction(log, "web_dashboard", action, name)
    /\ UNCHANGED <<now, zone, threshold, limit, nCreated, countFile, mailUp,
                   faults, sends, attempts, pc, queue, resp, arg, pq>>
    /\ UNCHANGED auxVars

approve_request(name) == web_request("approve_action", "Approved", "approved", name)

reject_request(name) == web_request("reject_action", "Rejected", "rejected", name)

\* ------------------------------------------------------------- vault_sync
\* claim_item(vault, filename, "Pending_Approval", to_folder)
claim_item ==
    /\ pc = "idle"
    /\ \E name \in DOMAIN fs["Pending_Approval"], to \in {"Approved", "Rejected"} :
        /\ ~Exists(to, name)
        /\ fs' = Rename(fs, "Pending_Approval", to, name)
    /\ UNCHANGED <<now, zone, threshold, limit, nCreated, countFile, log,
                   mailUp, faults, sends, attempts, pc, queue, resp, ret, arg,
                   pq>>
    /\ UNCHANGED auxVars

\* A claim that only checks the source.
ClaimRefusedIfMissing(f, name, from, to) == name \notin DOMAIN f[from]

\* claim_item's two checks: source.exists(), dest.exists().
ClaimRefused(f, name, from, to) ==
    name \notin DOMAIN f[from] \/ name \in DOMAIN f[to]

\* claim_item(vault, filename, from_folder, to_folder), any arguments:
\* raise VaultSyncError, or source.rename(dest) and return dest.
claim_item_call(name, from, to) ==
    /\ pc = "idle"
    /\ IF ClaimRefused(fs, name, from, to)
       THEN /\ ret' = Ret("VaultSyncError", to, name)
            /\ fs' = fs
       ELSE /\ ret' = Ret("claim_item", to, name)
            /\ fs' = Rename(fs, from, to, name)
    /\ UNCHANGED <<now, zone, threshold, limit, nCreated, countFile, log,
                   mailUp, faults, sends, attempts, pc, queue, resp, arg, pq>>
    /\ UNCHANGED auxVars

\* -------------------------------------------------------------- quarantine
\* The header with quarantine_error / quarantine_time added.
WithQuarantineMetadata(content, t) == [content EXCEPT !.qtime = <<t>>]

\* Drop the quarantine_error and quarantine_time lines.
_strip_quarantine_metadata(content) == [content EXCEPT !.qtime = <<>>]

\* queue_failed_action: write the annotated copy into Quarantine.
QF_Write ==
    /\ pc = "idle"
    /\ \E name \in DOMAIN fs["Needs_Action"] :
        /\ fs' = WriteText(fs, "Quarantine", name,
                           WithQuarantineMetadata(fs["Needs_Action"][name], now))
        /\ arg' = name
    /\ pc' = "qf_unlink"
    /\ UNCHANGED <<now, zone, threshold, limit, nCreated, countFile, log,
                   mailUp, faults, sends, attempts, queue, resp, ret, pq>>
    /\ UNCHANGED auxVars

\* queue_failed_action: action_file.unlink()
QF_Unlink ==
    /\ pc = "qf_unlink"
    /\ fs' = Unlink(fs, "Needs_Action", arg)
    /\ arg' = NoName
    /\ pc' = "idle"
    /\ UNCHANGED <<now, zone, threshold, limit, nCreated, countFile, log,
                   mailUp, faults, sends, attempts, queue, resp, ret, pq>>
    /\ UNCHANGED auxVars

MinAges == {0, 1}

\* process_quarantine(vault, min_age): take the time, list Quarantine.
PQ_Start ==
    /\ pc = "idle"
    /\ fs["Quarantine"] # <<>>
    /\ \E m \in MinAges : pq' = [min_age |-> m, start |-> now, moved |-> <<>>]
    /\ queue' = SortedNames(DOMAIN fs["Quarantine"])
    /\ pc' = "pq"
    /\ UNCHANGED <<now, zone, threshold, limit, fs, nCreated, countFile, log,
                   mailUp, faults, sends, attempts, resp, ret, arg>>
    /\ UNCHANGED auxVars

\* A sweep that does not look at the timestamp.
NeverTooRecent(content, p) == FALSE

\* Whether the sweep leaves the item alone: it has a timestamp and is young.
TooRecent(content, p) ==
    /\ content.qtime # <<>>
    /\ p.start - content.qtime[1] < p.min_age

\* process_quarantine, one item: skip it, or write the cleaned copy.
PQ_Item ==
    /\ pc = "pq"
    /\ queue # <<>>
    /\ LET item == Head(queue)
           content == fs["Quarantine"][item]
       IN IF TooRecent(content, pq)
          THEN /\ queue' = Tail(queue)
               /\ pc' = "pq"
               /\ fs' = fs
          ELSE /\ fs' = WriteText(fs, "Needs_Action", item, _strip_quarantine_metadata(content))
               /\ pc' = "pq_unlink"
               /\ queue' = queue
    /\ UNCHANGED <<now, zone, threshold, limit, nCreated, countFile, log,
                   mailUp, faults, sends, attempts, resp, ret, arg, pq>>
    /\ UNCHANGED auxVars

\* process_quarantine: item.unlink(); moved.append(dest)
PQ_Unlink ==
    /\ pc = "pq_unlink"
    /\ fs' = Unlink(fs, "Quarantine", Head(queue))
    /\ pq' = [pq EXCEPT !.moved = Append(@, Head(queue))]
    /\ queue' = Tail(queue)
    /\ pc' = "pq"
    /\ UNCHANGED <<now, zone, threshold, limit, nCreated, countFile, log,
                   mailUp, faults, sends, attempts, resp, ret, arg>>
    /\ UNCHANGED auxVars

\* process_quarantine: return
PQ_Done ==
    /\ pc = "pq"
    /\ queue = <<>>
    /\ pq' = NoPq
    /\ pc' = "idle"
    /\ UNCHANGED <<now, zone, threshold, limit, fs, nCreated, countFile, log,
                   mailUp, faults, sends, attempts, queue, resp, ret, arg>>
    /\ UNCHANGED auxVars

Next ==
    \/ Tick
    \/ MailDown
    \/ create_action_file
    \/ pull_vault
    \/ StartCycle
    \/ PendingDone
    \/ PA_Write
    \/ PA_Unlink
    \/ PA_Log
    \/ ApprovedDone
    \/ EA_Begin
    \/ EA_LogReplyFailed
    \/ EA_Send
    \/ EA_Incr
    \/ EA_LogSent
    \/ EA_LogSendFailed
    \/ EA_Move
    \/ EA_LogExecuted
    \/ approve_action
    \/ reject_action
    \/ claim_item

Spec == Init /\ [][Next]_vars

\* queue_failed_action and process_quarantine are library functions: no
\* loop of the daemon under src calls them.  With a caller that runs them
\* between two cycles the system is this one.
NextSweep ==
    \/ Next
    \/ QF_Write
    \/ QF_Unlink
    \/ PQ_Start
    \/ PQ_Item
    \/ PQ_Unlink
    \/ PQ_Done

SpecSweep == Init /\ [][NextSweep]_vars

\* The two library functions and what feeds them, without the main loop.
NextRequeue ==
    \/ Tick
    \/ create_action_file
    \/ pull_vault
    \/ QF_Write
    \/ QF_Unlink
    \/ PQ_Start
    \/ PQ_Item
    \/ PQ_Unlink
    \/ PQ_Done

SpecRequeue == InitBacklog /\ [][NextRequeue]_vars

\* The vault holds plans in Pending_Approval, Approved and Rejected, possibly
\* under the same name with different content (two zones, synced by git).
ClaimFolders == {"Pending_Approval", "Approved", "Rejected"}

\* The plans a folder may hold at the start: none, or any of the names, each
\* with or without a drafted reply.
ClaimHoldings ==
    UNION {[S -> {"none", "full"}] : S \in SUBSET PlanNames}

PlansHeld(h) ==
    [n \in DOMAIN h |-> [type |-> "plan", priority |-> "none", source |-> SourceOf(n),
                          action |-> IF h[n] # "none" THEN "reply" ELSE "none",
                          reply |-> h[n], qtime |-> <<>>]]

InitClaim ==
    /\ InitProcess
    /\ \E pending, approved, rejected \in ClaimHoldings :
            fs = [[f \in Folders |-> <<>>] EXCEPT !["Pending_Approval"] = PlansHeld(pending),
                                                   !["Approved"] = PlansHeld(approved),
                                                   !["Rejected"] = PlansHeld(rejected)]

NextClaim ==
    \E name \in PlanNames, from \in ClaimFolders, to \in ClaimFolders :
        claim_item_call(name, from, to)

SpecClaim == InitClaim /\ [][NextClaim]_vars

NextWeb ==
    \/ \E name \in PlanNames : approve_request(name)
    \/ \E name \in PlanNames : reject_request(name)

\* The web handlers alone, over a vault that holds plans already.
SpecWeb == InitClaim /\ [][NextWeb]_vars

\* ------------------------------------------------------- claim_to_in_progress
\* Agents claim artifacts by moving them under In_Progress/<agent>/. Each
\* agent is a thread of its own; a call is several file system operations.
Agents == {"cloud_agent", "local_agent"}

MaxCalls == 2

NoCall == [pc |-> "idle", name |-> NoName, todo |-> {}, result |-> "none", late |-> FALSE]

\* Whether any In_Progress/<agent>/ folder holds the name.
Claimed(ip, name) == \E a \in Agents : name \in DOMAIN ip.held[a]

\* A scan that finds nothing.
NeverSeesClaim(ip, dir, name) == FALSE

\* (agent_dir / filename).exists()
SeesClaim(ip, dir, name) == name \in DOMAIN ip.held[dir]

\* The vault as the calls find it: an In_Progress tree in which at most one
\* agent holds any name.
CP_Open ==
    /\ pc = "idle"
    /\ inProgress = NoClaims
    /\ \E holder \in Agents, names \in SUBSET ActionNames :
        inProgress' = [status |-> "open",
                       held |-> [a \in Agents |->
                                    IF a = holder
                                    THEN [n \in names |-> ActionContent("low")]
                                    ELSE <<>>],
                       dirs |-> IF names = {} THEN {} ELSE {holder},
                       calls |-> [a \in Agents |-> NoCall],
                       made |-> [a \in Agents |-> 0],
                       won |-> <<>>]
    /\ UNCHANGED <<pipelineVars, helperVars, board, watcher, ralph>>

\* claim_to_in_progress(vault, name, agent): source.exists(), then the listing
\* of In_Progress/.
CP_Enter(agent, name) ==
    /\ inProgress.status = "open"
    /\ inProgress.calls[agent].pc = "idle"
    /\ inProgress.made[agent] < MaxCalls
    /\ inProgress' =
        [inProgress EXCEPT
            !.made[agent] = @ + 1,
            !.calls[agent] =
                IF ~Exists("Needs_Action", name)
                THEN [pc |-> "done", name |-> name, todo |-> {},
                      result |-> "VaultSyncError", late |-> Claimed(inProgress, name)]
                ELSE [pc |-> "scan", name |-> name, todo |-> inProgress.dirs,
                      result |-> "none", late |-> Claimed(inProgress, name)]]
    /\ UNCHANGED <<pipelineVars, helperVars, board, watcher, ralph>>

\* One turn of the loop over the agent folders; after the last one, mkdir.
CP_Scan(agent) ==
    /\ inProgress.status = "open"
    /\ inProgress.calls[agent].pc = "scan"
    /\ LET call == inProgress.calls[agent]
       IN IF call.todo = {}
          THEN inProgress' = [inProgress EXCEPT !.dirs = @ \cup {agent},
                                                !.calls[agent].pc = "rename"]
          ELSE \E dir \in call.todo :
                IF SeesClaim(inProgress, dir, call.name)
                THEN inProgress' = [inProgress EXCEPT
                                        !.calls[agent].pc = "done",
                                        !.calls[agent].result = "VaultSyncError"]
                ELSE inProgress' = [inProgress EXCEPT
                                        !.calls[agent].todo = @ \ {dir}]
    /\ UNCHANGED <<pipelineVars, helperVars, board, watcher, ralph>>

\* source.rename(dest): moves the file, or raises FileNotFoundError.
CP_Rename(agent) ==
    /\ inProgress.status = "open"
    /\ inProgress.calls[agent].pc = "rename"
    /\ LET name == inProgress.calls[agent].name
       IN IF Exists("Needs_Action", name)
          THEN /\ fs' = Unlink(fs, "Needs_Action", name)
               /\ inProgress' = [inProgress EXCEPT
                                    !.held[agent] = Put(@, name, fs["Needs_Action"][name]),
                                    !.won = Append(@, <<agent, name>>),
                                    !.calls[agent].pc = "done",
                                    !.calls[agent].result = "ok"]
          ELSE /\ fs' = fs
               /\ inProgress' = [inProgress EXCEPT
                                    !.calls[agent].pc = "done",
                                    !.calls[agent].result = "FileNotFoundError"]
    /\ UNCHANGED <<now, zone, threshold, limit, nCreated, countFile, log, mailUp,
                   faults, sends, attempts, pc, queue, resp, ret, arg, pq>>
    /\ UNCHANGED <<helperVars, board, watcher, ralph>>

\* The call has returned or raised; the agent is free for its next call.
CP_Return(agent) ==
    /\ inProgress.status = "open"
    /\ inProgress.calls[agent].pc = "done"
    /\ inProgress' = [inProgress EXCEPT !.calls[agent] = NoCall]
    /\ UNCHANGED <<pipelineVars, helperVars, board, watcher, ralph>>

NextClaims ==
    \/ CP_Open
    \/ \E agent \in Agents, name \in ActionNames : CP_Enter(agent, name)
    \/ \E agent \in Agents : CP_Scan(agent)
    \/ \E agent \in Agents : CP_Rename(agent)
    \/ \E agent \in Agents : CP_Return(agent)

SpecClaims == InitBacklog /\ [][NextClaims]_vars

\* ------------------------------------------------ Updates/ and Dashboard.md
UpdateNames == {"update-1", "update-2", "update-3"}

UpdateTexts == {"Five emails triaged", "Two drafts created"}

MaxUpdates == 2

\* Position of a name in sorted(updates_dir.glob("*.md")).
UpdateRank(name) ==
    CASE name = "update-1" -> 1
      [] name = "update-2" -> 2
      [] name = "update-3" -> 3

\* Update files taken in the reverse of filename order.
RECURSIVE ReverseSortedUpdates(_)
ReverseSortedUpdates(S) ==
    IF S = {} THEN <<>>
    ELSE LET last == CHOOSE n \in S : \A m \in S : UpdateRank(m) <= UpdateRank(n)
         IN <<last>> \o ReverseSortedUpdates(S \ {last})

\* sorted(updates_dir.glob("*.md"))
RECURSIVE SortedUpdates(_)
SortedUpdates(S) ==
    IF S = {} THEN <<>>
    ELSE LET first == CHOOSE n \in S : \A m \in S : UpdateRank(n) <= UpdateRank(m)
         IN <<first>> \o SortedUpdates(S \ {first})

\* f"\n\n## Update: {update_file.stem}\n{update_content}"
Section(name, text) == [update |-> name, text |-> text]

\* What Dashboard.md has above the merged sections.
Heading == [update |-> "", text |-> "# Dashboard"]

IsSection(part) == part.update # ""

\* The vault as the process finds it: Dashboard.md absent or with content,
\* Updates/ empty.
BD_Open ==
    /\ pc = "idle"
    /\ board = NoBoard
    /\ \E dashboard \in {<<>>, <<Heading>>} :
        board' = [status |-> "open", dashboard |-> dashboard, updates |-> <<>>,
                  at |-> "idle", listing |-> <<>>, buffer |-> <<>>, merged |-> 0,
                  result |-> <<>>, dropped |-> 0,
                  before |-> [dashboard |-> <<>>, updates |-> <<>>]]
    /\ UNCHANGED <<pipelineVars, helperVars, inProgress, watcher, ralph>>

\* write_update(vault, filename, content), between two cycles.
write_update(name, text) ==
    /\ board.status = "open"
    /\ board.at = "idle"
    /\ board.dropped < MaxUpdates
    /\ board' = [board EXCEPT !.updates = Put(@, name, text),
                              !.dropped = @ + 1]
    /\ UNCHANGED <<pipelineVars, helperVars, inProgress, watcher, ralph>>

\* main: if cfg.work_zone == "local": merge_updates(cfg.vault_path), up to the
\* read of Dashboard.md; with nothing in Updates/ merge_updates returns 0.
MU_Begin ==
    /\ board.status = "open"
    /\ board.at = "idle"
    /\ IF zone # "local"
       THEN board' = [board EXCEPT !.at = "refresh", !.result = <<>>]
       ELSE LET update_files == SortedUpdates(DOMAIN board.updates)
            IN IF update_files = <<>>
               THEN board' = [board EXCEPT
                                !.at = "refresh",
                                !.result = <<0>>,
                                !.before = [dashboard |-> board.dashboard,
                                            updates |-> board.updates]]
               ELSE board' = [board EXCEPT
                                !.at = "loop",
                                !.listing = update_files,
                                !.buffer = board.dashboard,
                                !.merged = 0,
                                !.result = <<>>,
                                !.before = [dashboard |-> board.dashboard,
                                            updates |-> board.updates]]
    /\ UNCHANGED <<pipelineVars, helperVars, inProgress, watcher, ralph>>

\* merge_updates: one turn of the loop: read, append the section, unlink.
MU_Item ==
    /\ board.status = "open"
    /\ board.at = "loop"
    /\ board.listing # <<>>
    /\ LET update_file == Head(board.listing)
       IN board' = [board EXCEPT
                        !.buffer = Append(@, Section(update_file, board.updates[update_file])),
                        !.updates = Remove(@, update_file),
                        !.merged = @ + 1,
                        !.listing = Tail(@)]
    /\ UNCHANGED <<pipelineVars, helperVars, inProgress, watcher, ralph>>

\* merge_updates: dashboard_path.write_text(dashboard_content); return merged
MU_Write ==
    /\ board.status = "open"
    /\ board.at = "loop"
    /\ board.listing = <<>>
    /\ board' = [board EXCEPT !.dashboard = board.buffer,
                              !.result = <<board.merged>>,
                              !.buffer = <<>>,
                              !.merged = 0,
                              !.at = "refresh"]
    /\ UNCHANGED <<pipelineVars, helperVars, inProgress, watcher, ralph>>

\* main: update_dashboard(cfg.vault_path), in every zone. It rewrites
\* Dashboard.md from the vault's state; whether the merged sections survive
\* is left open.
update_dashboard ==
    /\ board.status = "open"
    /\ board.at = "refresh"
    /\ \E keep \in BOOLEAN :
        board' = [board EXCEPT
                    !.dashboard = IF keep
                                  THEN <<Heading>> \o SelectSeq(@, IsSection)
                                  ELSE <<Heading>>,
                    !.at = "idle"]
    /\ UNCHANGED <<pipelineVars, helperVars, inProgress, watcher, ralph>>

NextBoard ==
    \/ BD_Open
    \/ \E name \in UpdateNames, text \in UpdateTexts : write_update(name, text)
    \/ MU_Begin
    \/ MU_Item
    \/ MU_Write
    \/ update_dashboard

SpecBoard == Init /\ [][NextBoard]_vars

\* ------------------------------------------------- a merge that stops midway
\* merge_updates: update_file.read_text(encoding="utf-8") raises on the
\* update at hand (not UTF-8, or unreadable).  Nothing in merge_updates or
\* around its call catches the exception: the sections gathered so far are
\* in the local dashboard_content only and go with the call.
MU_ReadRaises ==
    /\ board.status = "open"
    /\ board.at = "loop"
    /\ board.listing # <<>>
    /\ board' = [board EXCEPT !.at = "raised", !.buffer = <<>>,
                              !.listing = <<>>]
    /\ UNCHANGED <<pipelineVars, helperVars, inProgress, watcher, ralph>>

\* merge_updates: dashboard_path.write_text(dashboard_content) raises after
\* the loop; Dashboard.md keeps what it had.
MU_WriteRaises ==
    /\ board.status = "open"
    /\ board.at = "loop"
    /\ board.listing = <<>>
    /\ board' = [board EXCEPT !.at = "raised", !.buffer = <<>>]
    /\ UNCHANGED <<pipelineVars, helperVars, inProgress, watcher, ralph>>

NextBoardFaults ==
    \/ NextBoard
    \/ MU_ReadRaises
    \/ MU_WriteRaises

SpecBoardFaults == Init /\ [][NextBoardFaults]_vars

\* The update is a section of Dashboard.md.
InDashboard(name, text) ==
    \E i \in DOMAIN board.dashboard : board.dashboard[i] = Section(name, text)

\* C40: merge_updates never loses an update: when the merge stops at any
\* step, every update that was in Updates/ when it began is still in
\* Updates/ or is a section of Dashboard.md.
C40_NoUpdateLost ==
    (board.status = "open" /\ board.at = "raised") =>
        \A name \in DOMAIN board.before.updates :
            \/ /\ name \in DOMAIN board.updates
               /\ board.updates[name] = board.before.updates[name]
            \/ InDashboard(name, board.before.updates[name])

\* ------------------------------------------------------------ watcher.run_once
\* One watcher instance and its source: the mailbox's unread messages, or the
\* files lying in Incoming_Files.
WatcherKinds == {"gmail", "file"}

Detections == {1, 2}

MaxPolls == 2

\* f"email-{slug}-{id[:8]}.md" / f"file-{slug}.md"
ArtifactOf(kind, item) == <<IF kind = "gmail" THEN "email" ELSE "file", item>>

\* What check_for_updates returns: the unread messages; the files of
\* Incoming_Files whose name is not in self._processed.
check_for_updates(w) ==
    IF w.kind = "gmail" THEN w.present ELSE w.present \ w.seen

RECURSIVE Ascending(_)
Ascending(S) ==
    IF S = {} THEN <<>>
    ELSE LET least == CHOOSE i \in S : \A j \in S : i <= j
         IN <<least>> \o Ascending(S \ {least})

\* A loop that an exception ends.
AbortAfterFailure(items) == <<>>

\* except Exception: logger.error(...); the loop goes on.
AfterFailure(items) == Tail(items)

W_Open ==
    /\ pc = "idle"
    /\ watcher = NoWatcher
    /\ \E kind \in WatcherKinds :
        watcher' = [status |-> "open", kind |-> kind, present |-> {}, seen |-> {},
                    at |-> "idle", items |-> <<>>, count |-> 0, result |-> <<>>,
                    polled |-> {}, attempted |-> {}, returned |-> {},
                    polls |-> 0, made |-> [i \in Detections |-> 0]]
    /\ UNCHANGED <<pipelineVars, helperVars, inProgress, board, ralph>>

\* A message arrives unread; a file is dropped into Incoming_Files.
W_Arrive(item) ==
    /\ watcher.status = "open"
    /\ watcher.at = "idle"
    /\ item \notin watcher.present
    /\ watcher' = [watcher EXCEPT !.present = @ \cup {item}]
    /\ UNCHANGED <<pipelineVars, helperVars, inProgress, board, ralph>>

\* run_once: items = self.check_for_updates(); count = 0
W_Poll ==
    /\ watcher.status = "open"
    /\ watcher.at = "idle"
    /\ watcher.polls < MaxPolls
    /\ LET items == check_for_updates(watcher)
       IN watcher' = [watcher EXCEPT !.at = "loop",
                                     !.items = Ascending(items),
                                     !.count = 0,
                                     !.result = <<>>,
                                     !.polled = items,
                                     !.attempted = {},
                                     !.returned = {},
                                     !.polls = @ + 1]
    /\ UNCHANGED <<pipelineVars, helperVars, inProgress, board, ralph>>

\* run_once: one turn of the loop. create_action_file returns, raises before
\* it has written the artifact, or raises after (log_action, shutil.move).
W_Create ==
    /\ watcher.status = "open"
    /\ watcher.at = "loop"
    /\ watcher.items # <<>>
    /\ LET item == Head(watcher.items)
           name == ArtifactOf(watcher.kind, item)
       IN \E outcome \in {"returns", "raises", "writes_and_raises"} :
            /\ fs' = IF outcome = "raises" THEN fs
                     ELSE WriteText(fs, "Needs_Action", name, ActionContent("normal"))
            /\ watcher' =
                [watcher EXCEPT
                    !.attempted = @ \cup {item},
                    !.made[item] = IF outcome = "raises" THEN @ ELSE @ + 1,
                    !.returned = IF outcome = "returns" THEN @ \cup {item} ELSE @,
                    !.count = IF outcome = "returns" THEN @ + 1 ELSE @,
                    !.present = IF outcome = "returns" /\ watcher.kind = "file"
                                THEN @ \ {item} ELSE @,
                    !.seen = IF outcome = "returns" /\ watcher.kind = "file"
                             THEN @ \cup {item} ELSE @,
                    !.items = IF outcome = "returns" THEN Tail(@) ELSE AfterFailure(@)]
    /\ UNCHANGED <<now, zone, threshold, limit, nCreated, countFile, log, mailUp,
                   faults, sends, attempts, pc, queue, resp, ret, arg, pq>>
    /\ UNCHANGED <<helperVars, inProgress, board, ralph>>

\* run_once: return count
W_Return ==
    /\ watcher.status = "open"
    /\ watcher.at = "loop"
    /\ watcher.items = <<>>
    /\ watcher' = [watcher EXCEPT !.at = "idle", !.result = <<watcher.count>>]
    /\ UNCHANGED <<pipelineVars, helperVars, inProgress, board, ralph>>

\* process_action's action_file.unlink(): the orchestrator has consumed the
\* artifact.
W_Consume ==
    /\ watcher.status = "open"
    /\ watcher.at = "idle"
    /\ \E name \in DOMAIN fs["Needs_Action"] :
        fs' = Unlink(fs, "Needs_Action", name)
    /\ UNCHANGED <<now, zone, threshold, limit, nCreated, countFile, log, mailUp,
                   faults, sends, attempts, pc, queue, resp, ret, arg, pq>>
    /\ UNCHANGED auxVars

NextWatch ==
    \/ W_Open
    \/ \E item \in Detections : W_Arrive(item)
    \/ W_Poll
    \/ W_Create
    \/ W_Return
    \/ W_Consume

SpecWatch == Init /\ [][NextWatch]_vars

\* ------------------------------------------------------------- run_ralph_loop
MaxIterations == 2

Strategies == {"promise", "file_movement"}

\* The task file of the file_movement strategy.
TaskName == <<"task", 1>>

\* What the assistant prints: the promise tag a stdout carries, if any.
RalphOutputs == {[text |-> "Still working on it...", promise |-> ""],
                 [text |-> "All done!", promise |-> "TASK_COMPLETE"],
                 [text |-> "Nearly.", promise |-> "TASK_PENDING"]}

\* bool(_PROMISE_PATTERN.search(output))
check_promise_completion(output) == output.promise = "TASK_COMPLETE"

\* (done_dir / task_file.name).exists()
check_file_completion(f, task_file) == task_file \in DOMAIN f["Done"]

\* A loop that runs once more than range(1, max_iterations + 1).
OneIterationMore(i, max_iterations) == i <= max_iterations

\* for i in range(1, max_iterations + 1): whether an iteration follows i.
MoreIterations(i, max_iterations) == i < max_iterations

\* A guard that lets every call through.
NeverMissingTaskFile(strategy, has_task) == FALSE

\* completion_strategy == "file_movement" and task_file is None
MissingTaskFile(strategy, has_task) == strategy = "file_movement" /\ ~has_task

\* run_ralph_loop(vault, prompt, model, max_iterations, strategy, task_file):
\* the ValueError for a missing task_file, else the loop is entered.
RL_Enter ==
    /\ pc = "idle"
    /\ ralph = NoRalph
    /\ journal = NoJournal
    /\ senders = NoSenders
    /\ peer = NoPeer
    /\ store = NoStore
    /\ \E strategy \in Strategies, max_iterations \in 0..MaxIterations,
          has_task \in BOOLEAN :
        ralph' = [status |-> "open", strategy |-> strategy, max |-> max_iterations,
                  task_file |-> has_task,
                  at |-> IF MissingTaskFile(strategy, has_task)
                         THEN "raised" ELSE "loop",
                  i |-> 0, calls |-> 0, last_output |-> [text |-> "", promise |-> ""],
                  outputs |-> <<>>, inDone |-> <<>>, result |-> <<>>,
                  state_file |-> <<>>, log_written |-> FALSE]
    /\ UNCHANGED <<pipelineVars, helperVars, inProgress, board, watcher>>

\* One iteration up to the assistant's answer: create_task_state,
\* _invoke_claude. The assistant may have moved the task file to Done; the
\* subprocess may raise (timeout, no executable).
RL_Invoke ==
    /\ ralph.status = "open"
    /\ ralph.at = "loop"
    /\ MoreIterations(ralph.i, ralph.max)
    /\ \E moves \in BOOLEAN :
        /\ fs' = IF moves
                 THEN WriteText(fs, "Done", TaskName, ActionContent("normal"))
                 ELSE fs
        /\ \/ \E output \in RalphOutputs :
                ralph' = [ralph EXCEPT !.i = @ + 1,
                                       !.calls = @ + 1,
                                       !.state_file = <<ralph.i + 1>>,
                                       !.last_output = output,
                                       !.outputs = Append(@, output),
                                       !.inDone = Append(@, TaskName \in DOMAIN fs'["Done"]),
                                       !.at = "check"]
           \/ ralph' = [ralph EXCEPT !.i = @ + 1,
                                     !.calls = @ + 1,
                                     !.state_file = <<ralph.i + 1>>,
                                     !.at = "raised"]
    /\ UNCHANGED <<now, zone, threshold, limit, nCreated, countFile, log, mailUp,
                   faults, sends, attempts, pc, queue, resp, ret, arg, pq>>
    /\ UNCHANGED <<helperVars, inProgress, board, watcher>>

\* The completion check of the iteration, and the return on success.
RL_Check ==
    /\ ralph.status = "open"
    /\ ralph.at = "check"
    /\ LET completed == IF ralph.strategy = "promise"
                        THEN check_promise_completion(ralph.last_output)
                        ELSE check_file_completion(fs, TaskName)
       IN ralph' = IF completed
                   THEN [ralph EXCEPT !.at = "returned",
                                      !.log_written = TRUE,
                                      !.result = <<[completed |-> TRUE,
                                                    iterations |-> ralph.i]>>]
                   ELSE [ralph EXCEPT !.at = "loop"]
    /\ UNCHANGED <<pipelineVars, helperVars, inProgress, board, watcher>>

\* Max iterations reached without completion.
RL_Exhausted ==
    /\ ralph.status = "open"
    /\ ralph.at = "loop"
    /\ ~MoreIterations(ralph.i, ralph.max)
    /\ ralph' = [ralph EXCEPT !.at = "returned",
                              !.log_written = TRUE,
                              !.result = <<[completed |-> FALSE,
                                            iterations |-> ralph.max]>>]
    /\ UNCHANGED <<pipelineVars, helperVars, inProgress, board, watcher>>

NextRalph == RL_Enter \/ RL_Invoke \/ RL_Check \/ RL_Exhausted

SpecRalph == Init /\ [][NextRalph]_vars

\* ------------------------------------------------------ log_action, as a list
\* The threads of the process that log: the main loop and the web server's
\* worker (threading.Thread(target=_run_web, daemon=True)).
Threads == {"main", "web"}

MaxLogCalls == 3

\* What a thread logs.
EntryOf(thread) ==
    IF thread = "main"
    THEN Entry("orchestrator", "plan_created", <<"email", 1>>)
    ELSE Entry("web", "approved", <<"plan", 1>>)

NotLogging == [at |-> "idle", today |-> 0, entries |-> <<>>]

\* A rewrite that keeps nothing of what was read.
Overwritten(entries, entry) == <<entry>>

\* entries.append({...}); log_file.write_text(json.dumps(entries, indent=2))
Rewritten(entries, entry) == Append(entries, entry)

\* The Logs folder as the process finds it: no file for any day.
L_Open ==
    /\ pc = "idle"
    /\ journal = NoJournal
    /\ journal' = [status |-> "open",
                   files |-> [d \in 0..MaxNow |-> <<>>],
                   threads |-> [t \in Threads |-> NotLogging],
                   started |-> 0, completed |-> 0]
    /\ UNCHANGED <<pipelineVars, settledVars, senders, peer, store>>

\* log_action up to the read: today's file name, json.loads(read_text()) if
\* the file exists.
L_Read(thread) ==
    /\ journal.status = "open"
    /\ journal.threads[thread].at = "idle"
    /\ journal.started < MaxLogCalls
    /\ journal' = [journal EXCEPT
                    !.started = @ + 1,
                    !.threads[thread] = [at |-> "read", today |-> now,
                                         entries |-> journal.files[now]]]
    /\ UNCHANGED <<pipelineVars, settledVars, senders, peer, store>>

\* log_action from the append to the rewrite of the file.
L_Write(thread) ==
    /\ journal.status = "open"
    /\ journal.threads[thread].at = "read"
    /\ LET call == journal.threads[thread]
       IN journal' = [journal EXCEPT
                        !.files[call.today] = Rewritten(call.entries, EntryOf(thread)),
                        !.completed = @ + 1,
                        !.threads[thread] = NotLogging]
    /\ UNCHANGED <<pipelineVars, settledVars, senders, peer, store>>

\* A call made while no other thread is inside log_action.
L_ReadAlone(thread) ==
    /\ \A other \in Threads : journal.status = "open" => journal.threads[other].at = "idle"
    /\ L_Read(thread)

NextJournal ==
    \/ Tick
    \/ L_Open
    \/ \E thread \in Threads : L_ReadAlone(thread)
    \/ \E thread \in Threads : L_Write(thread)

\* One caller at a time.
SpecJournal == Init /\ [][NextJournal]_vars

NextJournalRace ==
    \/ Tick
    \/ L_Open
    \/ \E thread \in Threads : L_Read(thread)
    \/ \E thread \in Threads : L_Write(thread)

\* The main loop and the web worker log whenever they get to it.
SpecJournalRace == Init /\ [][NextJournalRace]_vars

\* ------------------------------------------------------------------ setup_vault
VAULT_FOLDERS == {"Needs_Action", "Plans", "Pending_Approval", "Approved", "Done",
                  "Logs", "Incoming_Files", "Rejected"}

\* What a text file of the vault root may hold: <<>> is no file.
RootTexts == {<<>>, <<"default">>, <<"edited">>, <<"">>}

\* The files that may lie in the vault's folders.
StoreFiles == {<<"Done", "plan-1.md">>, <<"Needs_Action", "email-1.md">>}

\* A write that does not look whether the file is there.
WriteDefault(file) == <<"default">>

\* if not path.exists(): path.write_text(DEFAULT)
WriteIfAbsent(file) == IF file = <<>> THEN <<"default">> ELSE file

\* The vault root as a start of the process finds it: any of the folders,
\* files in those that exist, the handbook and the memory absent, as seeded,
\* edited or empty.
SV_Open ==
    /\ pc = "idle"
    /\ store = NoStore
    /\ \E dirs \in {{}, {"Done"}, {"Done", "Needs_Action", "Logs"}, VAULT_FOLDERS},
          files \in SUBSET StoreFiles,
          handbook \in RootTexts, agent_memory \in RootTexts :
        /\ \A f \in files : f[1] \in dirs
        /\ store' = [status |-> "open", dirs |-> dirs, files |-> files,
                     handbook |-> handbook, agent_memory |-> agent_memory,
                     settled |-> FALSE]
    /\ UNCHANGED <<pipelineVars, settledVars, journal, senders, peer>>

\* setup_vault(vault_path)
setup_vault ==
    /\ store.status = "open"
    /\ store' = [store EXCEPT !.dirs = @ \cup VAULT_FOLDERS,
                              !.handbook = WriteIfAbsent(@),
                              !.agent_memory = WriteIfAbsent(@),
                              !.settled = TRUE]
    /\ UNCHANGED <<pipelineVars, settledVars, journal, senders, peer>>

\* Between two starts the vault is used: the user edits the handbook, a
\* learning is appended to the memory, an artifact is filed.
SV_Use ==
    /\ store.status = "open"
    /\ store.settled
    /\ \/ store' = [store EXCEPT !.handbook = <<"edited">>, !.settled = FALSE]
       \/ store' = [store EXCEPT !.agent_memory = <<"edited">>, !.settled = FALSE]
       \/ \E f \in StoreFiles \ store.files :
            store' = [store EXCEPT !.files = @ \cup {f}, !.settled = FALSE]
    /\ UNCHANGED <<pipelineVars, settledVars, journal, senders, peer>>

NextSetup == SV_Open \/ setup_vault \/ SV_Use

SpecSetup == Init /\ [][NextSetup]_vars

\* ------------------------------------------- two senders, one Logs directory
\* The orchestrator's execute_approved and the MCP server's send_email tool
\* are separate processes; both gate on check_send_limit, call send_reply and
\* then increment_send_count on the same .send_count_<today>.json.
SenderNames == {"orchestrator", "mcp_email_server"}

\* A sender between two sends.
SenderIdle(s) == senders.status = "open" /\ senders.at[s] = "idle"

SN_Open ==
    /\ pc = "idle"
    /\ senders = NoSenders
    /\ \E lim \in 1..MaxLimit :
        senders' = [status |-> "open", limit |-> lim, file |-> <<>>,
                    sent |-> 0, refused |-> 0,
                    at |-> [s \in SenderNames |-> "idle"],
                    count |-> [s \in SenderNames |-> 0],
                    calls |-> [s \in SenderNames |-> 0]]
    /\ UNCHANGED <<pipelineVars, settledVars, journal, peer, store>>

\* if not check_send_limit(logs, limit): return
SN_Check(s) ==
    /\ senders.status = "open"
    /\ senders.at[s] = "idle"
    /\ senders.calls[s] < MaxCalls
    /\ IF check_send_limit(senders.file, senders.limit)
       THEN senders' = [senders EXCEPT !.at[s] = "send", !.calls[s] = @ + 1]
       ELSE senders' = [senders EXCEPT !.refused = @ + 1, !.calls[s] = @ + 1]
    /\ UNCHANGED <<pipelineVars, settledVars, journal, peer, store>>

\* send_reply(...): the provider accepts the reply, or the call raises and
\* the except branch returns.
SN_Send(s) ==
    /\ senders.status = "open"
    /\ senders.at[s] = "send"
    /\ \/ senders' = [senders EXCEPT !.sent = @ + 1, !.at[s] = "incr"]
       \/ senders' = [senders EXCEPT !.at[s] = "idle"]
    /\ UNCHANGED <<pipelineVars, settledVars, journal, peer, store>>

\* increment_send_count: count = json.loads(count_file.read_text())["count"]
SN_IncrRead(s) ==
    /\ senders.status = "open"
    /\ senders.at[s] = "incr"
    /\ senders' = [senders EXCEPT !.count[s] = CountOf(senders.file),
                                  !.at[s] = "write"]
    /\ UNCHANGED <<pipelineVars, settledVars, journal, peer, store>>

\* increment_send_count: count_file.write_text({"count": count + 1})
SN_IncrWrite(s) ==
    /\ senders.status = "open"
    /\ senders.at[s] = "write"
    /\ senders' = [senders EXCEPT !.file = <<senders.count[s] + 1>>,
                                  !.at[s] = "idle"]
    /\ UNCHANGED <<pipelineVars, settledVars, journal, peer, store>>

SN_Step(s) == SN_Check(s) \/ SN_Send(s) \/ SN_IncrRead(s) \/ SN_IncrWrite(s)

\* The two processes run freely.
NextSenders ==
    \/ SN_Open
    \/ \E s \in SenderNames : SN_Check(s)
    \/ \E s \in SenderNames : SN_Send(s)
    \/ \E s \in SenderNames : SN_IncrRead(s)
    \/ \E s \in SenderNames : SN_IncrWrite(s)

SpecSenders == Init /\ [][NextSenders]_vars

\* One sender at a time: a sender starts only while the other is idle.
NextSendersSerial ==
    \/ SN_Open
    \/ \E s \in SenderNames :
        /\ \A t \in SenderNames \ {s} : SenderIdle(t)
        /\ SN_Step(s)

SpecSendersSerial == Init /\ [][NextSendersSerial]_vars

\* C37: with two senders on one Logs directory, whatever the interleaving
\* of check_send_limit, send and increment_send_count, the replies sent in
\* the day never exceed the daily limit, and once both senders are back the
\* counter equals the number of replies sent.
C37_SharedQuotaHolds ==
    senders.status = "open" =>
        /\ senders.sent <= senders.limit
        /\ (\A s \in SenderNames : SenderIdle(s)) =>
               CountOf(senders.file) = senders.sent

\* ---------------------------------------- two zones, one Needs_Action artifact
\* A cloud-zone and a local-zone process run the same main loop on one vault:
\* each lists Needs_Action and calls process_action on what it listed.
ZoneNames == {"cloud", "local"}

\* A process is through with the artifact: returned, or ended by an exception.
PeerOver(z) == peer.status = "open" /\ peer.at[z] \in {"returned", "raised"}

PP_Open ==
    /\ pc = "idle"
    /\ peer = NoPeer
    /\ peer' = [status |-> "open", artifact |-> TRUE, plan |-> <<>>,
                written |-> 0,
                at |-> [z \in ZoneNames |-> "idle"]]
    /\ UNCHANGED <<pipelineVars, settledVars, journal, senders, store>>

\* for action_file in orchestrator.get_pending_actions(): the glob runs once,
\* before the loop body.
PP_List(z) ==
    /\ peer.status = "open"
    /\ peer.at[z] = "idle"
    /\ peer' = [peer EXCEPT !.at[z] = IF peer.artifact THEN "listed"
                                                       ELSE "returned"]
    /\ UNCHANGED <<pipelineVars, settledVars, journal, senders, store>>

\* process_action: action_content = action_file.read_text(encoding="utf-8")
PP_Read(z) ==
    /\ peer.status = "open"
    /\ peer.at[z] = "listed"
    /\ peer' = [peer EXCEPT !.at[z] = IF peer.artifact THEN "read"
                                                       ELSE "raised"]
    /\ UNCHANGED <<pipelineVars, settledVars, journal, senders, store>>

\* process_action: metadata = parse_frontmatter(action_file), which reads
\* the file again.
PP_Parse(z) ==
    /\ peer.status = "open"
    /\ peer.at[z] = "read"
    /\ peer' = [peer EXCEPT !.at[z] = IF peer.artifact THEN "parsed"
                                                       ELSE "raised"]
    /\ UNCHANGED <<pipelineVars, settledVars, journal, senders, store>>

\* process_action: plan_path.write_text(plan_content); the plan's name
\* derives from the artifact's, so both processes write the same path.
PP_Write(z) ==
    /\ peer.status = "open"
    /\ peer.at[z] = "parsed"
    /\ peer' = [peer EXCEPT !.plan = <<z>>, !.written = @ + 1,
                            !.at[z] = "written"]
    /\ UNCHANGED <<pipelineVars, settledVars, journal, senders, store>>

\* process_action: action_file.unlink(), which raises FileNotFoundError on
\* a file that is gone; then the log entry and the return.
PP_Unlink(z) ==
    /\ peer.status = "open"
    /\ peer.at[z] = "written"
    /\ IF peer.artifact
       THEN peer' = [peer EXCEPT !.artifact = FALSE, !.at[z] = "returned"]
       ELSE peer' = [peer EXCEPT !.at[z] = "raised"]
    /\ UNCHANGED <<pipelineVars, settledVars, journal, senders, store>>

PP_Step(z) ==
    PP_List(z) \/ PP_Read(z) \/ PP_Parse(z) \/ PP_Write(z) \/ PP_Unlink(z)

\* The two processes run freely.
NextPeers ==
    \/ PP_Open
    \/ \E z \in ZoneNames : PP_List(z)
    \/ \E z \in ZoneNames : PP_Read(z)
    \/ \E z \in ZoneNames : PP_Parse(z)
    \/ \E z \in ZoneNames : PP_Write(z)
    \/ \E z \in ZoneNames : PP_Unlink(z)

SpecPeers == Init /\ [][NextPeers]_vars

\* One process at a time: a process moves only while the other is idle or
\* through.
NextPeersSerial ==
    \/ PP_Open
    \/ \E z \in ZoneNames :
        /\ \A y \in ZoneNames \ {z} :
               peer.status = "open" /\ peer.at[y] \in {"idle", "returned"}
        /\ PP_Step(z)

SpecPeersSerial == Init /\ [][NextPeersSerial]_vars

\* C39: when both zones' processes run process_action on the same artifact,
\* whatever the interleaving of their reads, plan writes and deletes, once
\* both are through exactly one plan exists, the artifact is gone from
\* Needs_Action and neither process has ended with an unhandled error.
C39_OnePlanNoError ==
    (\A z \in ZoneNames : PeerOver(z)) =>
        /\ peer.plan # <<>>
        /\ ~peer.artifact
        /\ \A z \in ZoneNames : peer.at[z] = "returned"

\* A step of the main loop's cycle (src/main.py:118-140) on readable files.
CycleStep ==
    \/ StartCycle
    \/ PendingDone
    \/ PA_Write
    \/ PA_Unlink
    \/ PA_Log
    \/ ApprovedDone

\* The main loop cycling for ever, next to a caller of queue_failed_action:
\* the cycle itself calls neither queue_failed_action nor
\* process_quarantine.
NextUnswept ==
    \/ Tick
    \/ QF_Write
    \/ QF_Unlink
    \/ CycleStep

SpecUnswept == InitBacklog /\ [][NextUnswept]_vars /\ WF_vars(CycleStep)

SpecBacklog == InitBacklog /\ [][Next]_vars

\* ------------------------------------------------- the execution half alone
\* The process starts on a vault whose Approved folder holds one or two plans
\* a human approved (and possibly edited); nothing else arrives.
InitExec ==
    /\ InitProcess
    /\ \E S \in (SUBSET PlanNames) \ {{}} :
         \E approved \in [S -> UNION {ApprovedContents(n) : n \in ActionNames}] :
            /\ \A n \in S : approved[n].source = SourceOf(n)
            /\ fs = [[f \in Folders |-> <<>>] EXCEPT !["Approved"] = approved]

NextExec ==
    \/ Tick
    \/ MailDown
    \/ StartCycle
    \/ PendingDone
    \/ ApprovedDone
    \/ EA_Begin
    \/ EA_LogReplyFailed
    \/ EA_Send
    \/ EA_Incr
    \/ EA_LogSent
    \/ EA_LogSendFailed
    \/ EA_Move
    \/ EA_LogExecuted

SpecExec == InitExec /\ [][NextExec]_vars

\* ------------------------------------------ failures after an accepted send
\* execute_approved: increment_send_count raises inside the try (the counter
\* file cannot be read, parsed or written).  The reply is already sent; the
\* except branch takes over.
EA_IncrRaises ==
    /\ pc = "ea_incr"
    /\ faults < MaxFaults
    /\ faults' = faults + 1
    /\ pc' = "ea_log_send_failed"
    /\ UNCHANGED <<now, zone, threshold, limit, fs, nCreated, countFile, log,
                   mailUp, sends, attempts, queue, resp, ret, arg, pq>>
    /\ UNCHANGED auxVars

\* execute_approved: log_action("email_sent") raises inside the try, after
\* the send and the increment.  The except branch takes over.
EA_LogSentRaises ==
    /\ pc = "ea_log_sent"
    /\ faults < MaxFaults
    /\ faults' = faults + 1
    /\ pc' = "ea_log_send_failed"
    /\ UNCHANGED <<now, zone, threshold, limit, fs, nCreated, countFile, log,
                   mailUp, sends, attempts, queue, resp, ret, arg, pq>>
    /\ UNCHANGED auxVars

NextExecFaults ==
    \/ NextExec
    \/ EA_IncrRaises
    \/ EA_LogSentRaises

SpecExecFaults == InitExec /\ [][NextExecFaults]_vars

\* How often the provider accepted a reply for the plan.
TimesSent(plan) == Cardinality({i \in DOMAIN sends : sends[i][1] = plan})

\* C36: over all cycles every approved reply plan is sent at most once: a
\* failure that follows the accepted send inside the same execute_approved
\* call does not lead to a second send of the plan.
C36_AtMostOneSendPerPlan == \A plan \in PlanNames : TimesSent(plan) <= 1


\* ---------------------------------------------------------- review_rejected
\* What the assistant's second prompt can yield: nothing, or one sentence.
ReviewOutputs == {"", "learning"}

get_rejected_actions == SortedNames(DOMAIN fs["Rejected"])

\* A Memory file that is rewritten instead of appended to.
RememberAfresh(mem, out, t) ==
    <<MemoryHeader, [kind |-> "bullet", ts |-> t, text |-> out]>>

\* The Memory file after a review: unchanged for an empty output, otherwise
\* one bullet with timestamp more, under the header if the file was absent.
Remember(mem, out, t) ==
    IF out = "" THEN mem
    ELSE (IF mem = <<>> THEN <<MemoryHeader>> ELSE mem)
            \o <<[kind |-> "bullet", ts |-> t, text |-> out]>>

\* The rejected loop of a cycle starts: list Rejected.
RejectedStart ==
    /\ pc = "idle"
    /\ pc' = "rejected"
    /\ queue' = get_rejected_actions
    /\ UNCHANGED <<now, zone, threshold, limit, fs, nCreated, countFile, log,
                   mailUp, faults, sends, attempts, resp, ret, arg, pq>>
    /\ UNCHANGED auxVars

\* review_rejected: ask the assistant for one sentence of learning.
RR_Invoke ==
    /\ pc = "rejected"
    /\ queue # <<>>
    /\ \E out \in ReviewOutputs : review' = out
    /\ pc' = "rr_remember"
    /\ UNCHANGED <<now, zone, threshold, limit, fs, nCreated, countFile, log,
                   mailUp, faults, sends, attempts, queue, resp, ret, arg, pq,
                   memory, rt, doc>>
    /\ UNCHANGED <<sideVars, lateVars>>

\* review_rejected: append the learning to the Memory file.
RR_Remember ==
    /\ pc = "rr_remember"
    /\ memory' = Remember(memory, review, now)
    /\ pc' = "rr_move"
    /\ UNCHANGED <<now, zone, threshold, limit, fs, nCreated, countFile, log,
                   mailUp, faults, sends, attempts, queue, resp, ret, arg, pq,
                   review, rt, doc>>
    /\ UNCHANGED <<sideVars, lateVars>>

\* review_rejected: move the plan to Done.
RR_Move ==
    /\ pc = "rr_move"
    /\ fs' = Rename(fs, "Rejected", "Done", Head(queue))
    /\ pc' = "rr_log"
    /\ UNCHANGED <<now, zone, threshold, limit, nCreated, countFile, log,
                   mailUp, faults, sends, attempts, queue, resp, ret, arg, pq>>
    /\ UNCHANGED auxVars

\* review_rejected: log rejection_reviewed and return.
RR_Log ==
    /\ pc = "rr_log"
    /\ log' = LogAction(log, "orchestrator", "rejection_reviewed", Head(queue))
    /\ ret' = Ret("review_rejected", "Done", Head(queue))
    /\ queue' = Tail(queue)
    /\ pc' = "rejected"
    /\ UNCHANGED <<now, zone, threshold, limit, fs, nCreated, countFile,
                   mailUp, faults, sends, attempts, resp, arg, pq>>
    /\ UNCHANGED auxVars

\* The rejected loop is through.
RejectedDone ==
    /\ pc = "rejected"
    /\ queue = <<>>
    /\ pc' = "idle"
    /\ UNCHANGED <<now, zone, threshold, limit, fs, nCreated, countFile, log,
                   mailUp, faults, sends, attempts, queue, resp, ret, arg, pq>>
    /\ UNCHANGED auxVars

\* Somebody deletes the Memory file.
MemoryRemoved ==
    /\ pc = "idle"
    /\ memory # <<>>
    /\ memory' = <<>>
    /\ UNCHANGED <<now, zone, threshold, limit, fs, nCreated, countFile, log,
                   mailUp, faults, sends, attempts, pc, queue, resp, ret, arg, pq,
                   review, rt, doc>>
    /\ UNCHANGED <<sideVars, lateVars>>

\* The process starts on a vault whose Rejected folder holds one or two
\* plans a human rejected.
InitReview ==
    /\ InitProcess
    /\ \E S \in (SUBSET PlanNames) \ {{}} :
         \E rejected \in [S -> UNION {ApprovedContents(n) : n \in ActionNames}] :
            /\ \A n \in S : rejected[n].source = SourceOf(n)
            /\ fs = [[f \in Folders |-> <<>>] EXCEPT !["Rejected"] = rejected]

NextReview ==
    \/ Tick
    \/ MemoryRemoved
    \/ RejectedStart
    \/ RR_Invoke
    \/ RR_Remember
    \/ RR_Move
    \/ RR_Log
    \/ RejectedDone

SpecReview == InitReview /\ [][NextReview]_vars


\* ------------------------------------------------------ a file that raises
\* The process starts on a vault whose Needs_Action holds one or two files,
\* readable or not.
InitGarbled ==
    /\ InitProcess
    /\ \E S \in (SUBSET ActionNames) \ {{}} :
         \E waiting \in [S -> {ActionContent(prio) : prio \in Priorities} \cup {Garbled}] :
            fs = [[f \in Folders |-> <<>>] EXCEPT !["Needs_Action"] = waiting]

NextHalt ==
    \/ Tick
    \/ StartCycle
    \/ PA_Raise
    \/ PA_Write
    \/ PA_Unlink
    \/ PA_Log
    \/ PendingDone
    \/ ApprovedDone

SpecHalt == InitGarbled /\ [][NextHalt]_vars


\* ----------------------------------------------------------------- with_retry
\* What one call of the wrapped function can do: return, raise
\* TransientError, raise PermanentError, raise anything else.
Outcomes == {"ok", "transient", "permanent", "other"}

BaseDelays == {1, 2}
MaxDelays == {1, 3, 60}

\* A wrapper that retries whatever was raised.
RetriesAnyError(outcome) == outcome # "ok"

\* except TransientError: the only outcome that is retried.
Retried(outcome) == outcome = "transient"

\* A loop that runs once too often.
InRangePlusOne(attempt, n) == attempt <= n + 1

\* for attempt in range(1, max_attempts + 1)
InRange(attempt, n) == attempt <= n

\* A wrapper that backs off after every failure.
SleepsAfterAny(attempt, n) == TRUE

\* if attempt < max_attempts: sleep, else give up
SleepsAfter(attempt, n) == attempt < n

\* delay = min(base_delay * (2 ** (attempt - 1)), max_delay)
Delay(base, cap, attempt) ==
    LET d == base * (2 ^ (attempt - 1)) IN IF d < cap THEN d ELSE cap

\* The wrapper is called: the loop starts, or is over at once when
\* max_attempts is 0.
RT_Enter ==
    /\ rt.status = "idle"
    /\ \E n \in 0..MaxAttempts, base \in BaseDelays, cap \in MaxDelays :
        rt' = [status |-> IF InRange(1, n) THEN "calling" ELSE "exhausted",
               n |-> n, base |-> base, cap |-> cap, attempt |-> 1,
               calls |-> 0, outcomes |-> <<>>, sleeps |-> <<>>]
    /\ UNCHANGED <<now, zone, threshold, limit, fs, nCreated, countFile, log,
                   mailUp, faults, sends, attempts, pc, queue, resp, ret, arg, pq,
                   memory, review, doc>>
    /\ UNCHANGED <<sideVars, lateVars>>

\* One pass of the loop body up to the except clauses: return func(...),
\* or raise PermanentError (re-raised) or another exception (not caught),
\* or catch TransientError.
RT_Call ==
    /\ rt.status = "calling"
    /\ \E o \in Outcomes :
        rt' = [rt EXCEPT !.calls = @ + 1,
                         !.outcomes = Append(@, o),
                         !.status = IF o = "ok" THEN "returned"
                                    ELSE IF Retried(o) THEN "failed"
                                    ELSE IF o = "permanent" THEN "raised_permanent"
                                    ELSE "raised_other"]
    /\ UNCHANGED <<now, zone, threshold, limit, fs, nCreated, countFile, log,
                   mailUp, faults, sends, attempts, pc, queue, resp, ret, arg, pq,
                   memory, review, doc>>
    /\ UNCHANGED <<sideVars, lateVars>>

\* The rest of the except TransientError clause: sleep unless this was the
\* last attempt; then the loop goes to its next pass or ends.
RT_Backoff ==
    /\ rt.status = "failed"
    /\ rt' = [rt EXCEPT !.sleeps = IF SleepsAfter(rt.attempt, rt.n)
                                   THEN Append(@, Delay(rt.base, rt.cap, rt.attempt))
                                   ELSE @,
                        !.attempt = @ + 1,
                        !.status = IF InRange(rt.attempt + 1, rt.n)
                                   THEN "calling" ELSE "exhausted"]
    /\ UNCHANGED <<now, zone, threshold, limit, fs, nCreated, countFile, log,
                   mailUp, faults, sends, attempts, pc, queue, resp, ret, arg, pq,
                   memory, review, doc>>
    /\ UNCHANGED <<sideVars, lateVars>>

\* raise last_error: the last TransientError, or None (a TypeError) when
\* the loop never ran.
RT_Raise ==
    /\ rt.status = "exhausted"
    /\ rt' = [rt EXCEPT !.status = IF rt.calls = 0 THEN "raised_type_error"
                                   ELSE "raised_transient"]
    /\ UNCHANGED <<now, zone, threshold, limit, fs, nCreated, countFile, log,
                   mailUp, faults, sends, attempts, pc, queue, resp, ret, arg, pq,
                   memory, review, doc>>
    /\ UNCHANGED <<sideVars, lateVars>>

NextRetry ==
    \/ RT_Enter
    \/ RT_Call
    \/ RT_Backoff
    \/ RT_Raise

SpecRetry == Init /\ [][NextRetry]_vars


\* ------------------------------------------- quarantine, at the level of text
\* A line "key: val"; t is the time a timestamp denotes.
Line(key, val, t) == [key |-> key, val |-> val, t |-> t]

TypeLine == Line("type", "email", 0)
PriorityLine == Line("priority", "high", 0)
BodyLine == Line("", "hello", 0)

\* quarantine_time lines: an ISO timestamp with offset (what
\* queue_failed_action writes), one without offset, something else.
TimeLine(kind, t) == Line("quarantine_time", kind, t)

\* The artifacts a watcher leaves in Needs_Action, with and without header.
Originals ==
    {[has_fm |-> TRUE, fm |-> h, body |-> <<BodyLine>>] :
        h \in {<<TypeLine>>, <<TypeLine, PriorityLine>>}}
    \cup {[has_fm |-> FALSE, fm |-> <<>>, body |-> <<BodyLine>>]}

\* Error messages, as their lines: str(exception) may span lines.
ErrorMessages == {<<"boom">>, <<"boom", "more">>}

\* f"quarantine_error: {error_msg}\n": the first line of the message makes
\* the quarantine_error line, every further line a line of its own.
ErrorLines(msg) ==
    [i \in 1..Len(msg) |->
        IF i = 1 THEN Line("quarantine_error", msg[1], 0) ELSE Line("", msg[i], 0)]

\* queue_failed_action's new_content.
InjectMetadata(text, msg, t) ==
    IF text.has_fm
    THEN [text EXCEPT !.fm = @ \o ErrorLines(msg) \o <<TimeLine("aware", t)>>]
    ELSE [has_fm |-> TRUE, fm |-> ErrorLines(msg) \o <<TimeLine("aware", t)>>,
          body |-> text.body]

\* Files that reach Quarantine by other hands (an editor, the vault sync):
\* header with or without a quarantine_time line of any kind, body with or
\* without a line that reads like one.
Dropped ==
    {[has_fm |-> TRUE, fm |-> <<TypeLine, Line("quarantine_error", "boom", 0)>> \o tl,
      body |-> <<BodyLine>> \o bl] :
        tl \in {<<>>, <<TimeLine("garbage", 0)>>, <<TimeLine("naive", 0)>>,
                <<TimeLine("aware", 0)>>},
        bl \in {<<>>, <<TimeLine("aware", 0)>>}}

IsTimeLine(l) == l.key = "quarantine_time"

\* _extract_quarantine_time: the first line of the content (header or body)
\* that starts with "quarantine_time:", parsed by datetime.fromisoformat;
\* None if there is none or it does not parse.
_extract_quarantine_time(text) ==
    LET lines == SelectSeq(text.fm \o text.body, IsTimeLine)
    IN IF lines = <<>> \/ lines[1].val = "garbage"
       THEN [kind |-> "None", t |-> 0]
       ELSE [kind |-> lines[1].val, t |-> lines[1].t]

IsQuarantineLine(l) == l.key \in {"quarantine_error", "quarantine_time"}

KeepsLine(l) == ~IsQuarantineLine(l)

\* _strip_quarantine_metadata on the text: header lines that start with
\* quarantine_error: or quarantine_time: are dropped.
StripLines(text) ==
    IF ~text.has_fm THEN text ELSE [text EXCEPT !.fm = SelectSeq(@, KeepsLine)]

\* A watcher leaves an artifact in Needs_Action.
Q_Arrive ==
    /\ doc.status = "none"
    /\ \E o \in Originals :
        doc' = [status |-> "waiting", orig |-> o, file |-> o,
                min_age |-> 0, start |-> 0, moved |-> 0]
    /\ UNCHANGED <<now, zone, threshold, limit, fs, nCreated, countFile, log,
                   mailUp, faults, sends, attempts, pc, queue, resp, ret, arg, pq,
                   memory, review, rt>>
    /\ UNCHANGED <<sideVars, lateVars>>

\* queue_failed_action(vault, artifact, error_msg)
Q_Quarantine ==
    /\ doc.status = "waiting"
    /\ \E msg \in ErrorMessages :
        doc' = [doc EXCEPT !.status = "quarantined", !.file = InjectMetadata(@, msg, now)]
    /\ UNCHANGED <<now, zone, threshold, limit, fs, nCreated, countFile, log,
                   mailUp, faults, sends, attempts, pc, queue, resp, ret, arg, pq,
                   memory, review, rt>>
    /\ UNCHANGED <<sideVars, lateVars>>

\* A file appears in Quarantine by other hands; without its quarantine lines
\* it is the artifact to restore.
Q_Drop ==
    /\ doc.status = "none"
    /\ \E d \in Dropped :
        doc' = [status |-> "quarantined", orig |-> [d EXCEPT !.fm = <<TypeLine>>],
                file |-> d, min_age |-> 0, start |-> 0, moved |-> 0]
    /\ UNCHANGED <<now, zone, threshold, limit, fs, nCreated, countFile, log,
                   mailUp, faults, sends, attempts, pc, queue, resp, ret, arg, pq,
                   memory, review, rt>>
    /\ UNCHANGED <<sideVars, lateVars>>

\* process_quarantine(vault, min_age) on the file: skip it while too young,
\* else write the stripped text to Needs_Action and list it as moved.
\* now - quarantine_time raises TypeError for a timestamp without offset.
Q_Sweep ==
    /\ doc.status \in {"quarantined", "skipped"}
    /\ \E m \in MinAges :
        LET qt == _extract_quarantine_time(doc.file)
        IN doc' = IF qt.kind = "naive"
                  THEN [doc EXCEPT !.status = "raised", !.min_age = m, !.start = now]
                  ELSE IF qt.kind = "aware" /\ now - qt.t < m
                  THEN [doc EXCEPT !.status = "skipped", !.min_age = m, !.start = now]
                  ELSE [doc EXCEPT !.status = "restored", !.min_age = m, !.start = now,
                                   !.file = StripLines(@), !.moved = 1]
    /\ UNCHANGED <<now, zone, threshold, limit, fs, nCreated, countFile, log,
                   mailUp, faults, sends, attempts, pc, queue, resp, ret, arg, pq,
                   memory, review, rt>>
    /\ UNCHANGED <<sideVars, lateVars>>

NextQuarantine ==
    \/ Tick
    \/ Q_Arrive
    \/ Q_Quarantine
    \/ Q_Drop
    \/ Q_Sweep

SpecQuarantine == Init /\ [][NextQuarantine]_vars

\* ================================================================ properties

FoldersOf(name) == {f \in Folders : Exists(f, name)}

\* Where the plans whose source header names `a` are.
PlansOf(a) ==
    {p \in Folders \X AllNames :
        /\ Exists(p[1], p[2])
        /\ fs[p[1]][p[2]].type = "plan"
        /\ fs[p[1]][p[2]].source = a}

\* The day's quota is used up.
QuotaExhausted == CountOf(countFile) >= limit

\* A plan the specification lets process_action execute on its own.
Eligible(r) ==
    /\ zone = "local"
    /\ r.reply = "full"
    /\ r.conf >= threshold
    /\ ~QuotaExhausted

Ineligible(r) == r.conf < threshold \/ zone # "local" \/ QuotaExhausted

\* A step of process_action.
ProcessActionStep ==
    \/ pc = "pending" /\ pc' = "pa_unlink"
    \/ pc = "pa_unlink" /\ pc' = "pa_log"
    \/ pc = "pa_log" /\ pc' = "pending"

\* The step neither sends nor touches Approved or Done, the plan it writes is
\* in Pending_Approval and the path it returns is the one in Pending_Approval.
LeavesPlanPending ==
    /\ sends' = sends
    /\ attempts' = attempts
    /\ fs'["Approved"] = fs["Approved"]
    /\ fs'["Done"] = fs["Done"]
    /\ (pc' = "pa_unlink" => PlanNameOf(Head(queue)) \in DOMAIN fs'["Pending_Approval"])
    /\ (pc' = "pending" => ret'.folder = "Pending_Approval")

PriorityRank(prio) == CASE prio = "high" -> 0 [] prio = "low" -> 2 [] OTHER -> 1

\* How many entries of today's log record `action`.
RECURSIVE CountOver(_, _, _)
CountOver(l, action, S) ==
    IF S = {} THEN 0
    ELSE LET e == CHOOSE x \in S : TRUE
         IN (IF e.action = action THEN CopiesIn(e, l) ELSE 0) + CountOver(l, action, S \ {e})

LogCount(l, action) == CountOver(l, action, BagToSet(l))

\* C1: every artifact name is in at most one state folder at every
\* reachable state, the intermediate steps of the operations included (an
\* artifact that exists is then in exactly one).
C1_OneFolderPerName == \A n \in AllNames : Cardinality(FoldersOf(n)) <= 1

\* C2: in the cloud zone execute_approved is a no-op: it returns its input
\* path in Approved, nothing is sent or attempted, nothing reaches Done.
C2_CloudNeverExecutes ==
    zone = "cloud" =>
        /\ (ret.op = "execute_approved" => ret.folder = "Approved")
        /\ fs["Done"] = <<>>
        /\ sends = <<>>
        /\ attempts = 0

\* C3: process_action never auto-approves a plan whose confidence is below
\* the threshold, or in a zone that is not local, or with the daily quota
\* exhausted: the plan is left in Pending_Approval and no mail is sent.
C3_NoAutoApproveWhenIneligible ==
    [][ProcessActionStep /\ Ineligible(resp)' => LeavesPlanPending]_vars

\* C3 witness: process_action has returned for a reply plan whose only
\* obstacle is its confidence, and the plan is in Pending_Approval.
C3_Witness ==
    /\ ret.op = "process_action"
    /\ resp.reply = "full"
    /\ resp.conf < threshold
    /\ zone = "local"
    /\ ~QuotaExhausted
    /\ ret.folder = "Pending_Approval"
    /\ Exists("Pending_Approval", ret.name)

\* C4: the replies sent within one UTC day never exceed daily_send_limit
\* (with daily_send_limit = 0 none is sent).
C4_SendsWithinDailyLimit ==
    \A d \in 0..MaxNow :
        Cardinality({i \in DOMAIN sends : sends[i][2] = d}) <= limit

\* C5: the day's send counter is at least the number of email_sent entries
\* of the day's log.
C5_CounterCoversEmailSent == CountOf(countFile) >= LogCount(log, "email_sent")

\* C6: after process_action on an artifact, the artifact is gone from
\* Needs_Action and exactly one plan names it as its source.
C6_OnePlanAfterProcessAction ==
    ret.op = "process_action" =>
        /\ ~Exists("Needs_Action", SourceOf(ret.name))
        /\ Cardinality(PlansOf(SourceOf(ret.name))) = 1

\* C7: for an eligible plan (local zone, reply, confidence at least the
\* threshold, quota left) with the mail provider up, process_action
\* returns a path in Done.
C7_EligiblePlanIsExecuted ==
    ret.op = "process_action" /\ Eligible(resp) /\ mailUp => ret.folder = "Done"

C9_ThresholdOneDisables ==
    [][ProcessActionStep /\ threshold = 100 => LeavesPlanPending]_vars

\* C9 witness: with threshold 1.0, process_action has returned for a local
\* reply plan of confidence 1.0 with quota left and the provider up; the
\* plan is in Pending_Approval and nothing was sent.
C9_Witness ==
    /\ threshold = 100
    /\ ret.op = "process_action"
    /\ resp = [reply |-> "full", conf |-> 100]
    /\ zone = "local"
    /\ ~QuotaExhausted
    /\ mailUp
    /\ Exists("Pending_Approval", ret.name)
    /\ sends = <<>>

\* C10: the listing a cycle works through is ordered by priority: no
\* pending artifact comes before one of a better priority.
C10_PendingByPriority ==
    pc = "pending" =>
        \A i, j \in DOMAIN queue :
            (i < j /\ Exists("Needs_Action", queue[i]) /\ Exists("Needs_Action", queue[j]))
                => PriorityRank(fs["Needs_Action"][queue[i]].priority)
                     <= PriorityRank(fs["Needs_Action"][queue[j]].priority)


\* ----------------------------------------------------- execution half
\* Whether an entry with this action and source is in the log.
Logged(l, action, source) ==
    \E e \in BagToSet(l) : e.action = action /\ e.source = source

\* The step in which send_reply raises.
SendFails == pc = "ea_send" /\ ~mailUp /\ pc' # pc

\* The step that follows it, the except branch.
SendFailureHandled == pc = "ea_log_send_failed" /\ pc' # pc

\* execute_approved reaches send_reply for a listed reply plan that has a
\* block whenever the quota admits it.
AttemptsListedReplyPlan ==
    (/\ pc = "approved" /\ queue # <<>> /\ <<pc, queue>>' # <<pc, queue>>
     /\ fs["Approved"][Head(queue)].action = "reply"
     /\ HasReplyBlock(fs["Approved"][Head(queue)])
     /\ check_send_limit(countFile, limit))
    => pc' = "ea_send"

\* C11: when send_reply fails for an approved reply plan, the failure is
\* logged as send_failed, the plan stays in Approved with its content
\* unchanged, the counter is not incremented and no email_sent entry is
\* written; every later cycle lists the plan again and attempts the send
\* again (quota permitting) for as long as it is in Approved.
C11_FailedSendKeepsPlanApproved ==
    [][/\ SendFails =>
            /\ pc' = "ea_log_send_failed"
            /\ UNCHANGED <<fs, countFile, log, sends, queue>>
       /\ SendFailureHandled =>
            /\ log' = log (+) SetToBag({Entry("orchestrator", "send_failed", Head(queue))})
            /\ UNCHANGED <<fs, countFile, sends>>
            /\ Exists("Approved", Head(queue))
            /\ ret' = Ret("execute_approved", "Approved", Head(queue))
       /\ (pc = "pending" /\ pc' = "approved") =>
            \A n \in DOMAIN fs["Approved"] : \E i \in 1..Len(queue') : queue'[i] = n
       /\ AttemptsListedReplyPlan]_vars

\* A plan whose first send failed was sent by a later cycle and is in Done.
C11_Witness ==
    /\ faults = 1
    /\ attempts = 2
    /\ \E p \in PlanNames :
        /\ Len(sends) = 1 /\ sends[1][1] = p
        /\ Exists("Done", p)
        /\ DOMAIN fs["Approved"] = {}
        /\ DOMAIN fs["Done"] = {p}


\* The content of a plan, in whichever of Approved and Done it is.
ContentOf(p) ==
    IF Exists("Approved", p) THEN fs["Approved"][p] ELSE fs["Done"][p]

\* C12: a plan with action reply whose body has no complete, well-ordered
\* BEGIN REPLY ... END REPLY block is never sent (it is logged as
\* reply_failed and moved to Done instead).
C12_NoSendWithoutCompleteBlock ==
    \A i \in 1..Len(sends) : ContentOf(sends[i][1]).reply = "full"


\* execute_approved is at work, in the local zone, on a plan whose header
\* has no action field, and takes a step.
NoActionPlanStep ==
    /\ zone = "local"
    /\ pc \in {"approved", "ea_move", "ea_log_executed"}
    /\ queue # <<>>
    /\ ContentOf(Head(queue)).action = "none"
    /\ <<pc, queue>>' # <<pc, queue>>

\* C13: executing an approved plan without action field in the local zone
\* sends nothing and leaves the counter alone; it moves the file, and only
\* that file, from Approved to Done under the same filename and with the
\* same content, and returns the Done path.
C13_NoActionPlanMovesToDone ==
    [][NoActionPlanStep =>
        /\ UNCHANGED <<sends, attempts, countFile>>
        /\ pc' \notin {"ea_send", "ea_incr", "ea_log_sent"}
        /\ pc = "approved" => pc' = "ea_move" /\ fs' = fs
        /\ pc = "ea_move" =>
            /\ Head(queue) \notin DOMAIN fs'["Approved"]
            /\ fs'["Done"][Head(queue)] = fs["Approved"][Head(queue)]
            /\ \A f \in Folders : \A n \in DOMAIN fs[f] :
                 n # Head(queue) => n \in DOMAIN fs'[f] /\ fs'[f][n] = fs[f][n]
            /\ \A f \in Folders : DOMAIN fs'[f] \subseteq DOMAIN fs[f] \cup {Head(queue)}
        /\ pc = "ea_log_executed" =>
            /\ fs' = fs
            /\ log' = log (+) SetToBag({Entry("orchestrator", "executed", Head(queue))})
            /\ ret' = Ret("execute_approved", "Done", Head(queue))]_vars

\* A plan without action field has been executed in the local zone.
C13_Witness ==
    /\ zone = "local"
    /\ sends = <<>> /\ attempts = 0 /\ countFile = <<>>
    /\ \E p \in PlanNames :
        /\ Exists("Done", p) /\ ~Exists("Approved", p)
        /\ fs["Done"][p].action = "none"
        /\ ret = Ret("execute_approved", "Done", p)
        /\ Logged(log, "executed", p)


\* The approved loop of a local-zone cycle has just finished, and no
\* midnight has passed since the process started.
CycleEnd == pc = "approved" /\ queue = <<>> /\ zone = "local" /\ now = 0

IsPrefix(a, b) == Len(a) <= Len(b) /\ \A i \in 1..Len(a) : b[i] = a[i]

\* C15: after review_rejected(p) the plan is in Done and not in Rejected,
\* whatever the assistant produced; the Memory file gains at least one new
\* non-empty line exactly when the review output is non-empty, and keeps
\* the lines it had.
C15_ReviewMovesAndRemembers ==
    [][/\ (pc = "rr_remember" /\ pc' # pc) =>
            /\ (review # "") <=> (Len(memory') > Len(memory))
            /\ (review = "") => memory' = memory
            /\ IsPrefix(memory, memory')
            /\ \A i \in (Len(memory) + 1)..Len(memory') : memory'[i].text # ""
       /\ (pc = "rr_log" /\ pc' # pc) =>
            /\ Head(queue) \in DOMAIN fs'["Done"]
            /\ Head(queue) \notin DOMAIN fs'["Rejected"]
            /\ memory' = memory
            /\ ret' = Ret("review_rejected", "Done", Head(queue))]_vars

\* Two reviews have returned: one yielded a learning, which is in the Memory
\* file under what was there before, and the last one yielded nothing.
C15_Witness ==
    /\ ret.op = "review_rejected"
    /\ review = ""
    /\ Len(memory) = 2 /\ memory[1] = MemoryHeader /\ memory[2].text = "learning"
    /\ Cardinality(DOMAIN fs["Done"]) = 2
    /\ DOMAIN fs["Rejected"] = {}


\* ----------------------------------------------------- failure isolation
\* C16: a failure on one artifact never halts the cycle: the main thread
\* does not end while a readable artifact the cycle listed is still waiting
\* in Needs_Action.
C16_FailureDoesNotHaltCycle ==
    ~(/\ pc = "crashed"
      /\ \E i \in 2..Len(queue) :
            /\ Exists("Needs_Action", queue[i])
            /\ Readable(fs["Needs_Action"][queue[i]]))


\* --------------------------------------------------------------- with_retry
\* The wrapper has been called.
Entered == rt.status # "idle"

\* Whether every call made so far raised TransientError.
AllTransient == \A i \in 1..Len(rt.outcomes) : rt.outcomes[i] = "transient"

\* C17: with_retry(max_attempts = N), N >= 1, calls the wrapped function at
\* most N times; a call that succeeds is the last one and its result is
\* returned; if all N calls raise TransientError the wrapper raises the
\* last TransientError, after exactly N calls.
C17_AtMostMaxAttemptsCalls ==
    (Entered /\ rt.n >= 1) =>
        /\ rt.calls = Len(rt.outcomes)
        /\ rt.calls <= rt.n
        /\ \A i \in 1..Len(rt.outcomes) :
            rt.outcomes[i] = "ok" => i = Len(rt.outcomes) /\ rt.status = "returned"
        /\ rt.status = "returned" => rt.outcomes[Len(rt.outcomes)] = "ok"
        /\ (rt.calls = rt.n /\ AllTransient) =>
                rt.status \in {"failed", "exhausted", "raised_transient"}
        /\ rt.status = "raised_transient" => rt.calls = rt.n /\ AllTransient

\* The second of three allowed calls succeeded and the wrapper returned.
C17_Witness == rt.status = "returned" /\ rt.n = 3 /\ rt.calls = 2

\* C18: a PermanentError propagates at once, at whichever attempt it is
\* raised: the call that raised it is the last one, and no backoff sleep
\* follows it (the sleeps are those after the earlier, transient failures).
C18_PermanentErrorPropagates ==
    Entered =>
        \A i \in 1..Len(rt.outcomes) :
            rt.outcomes[i] = "permanent" =>
                /\ i = Len(rt.outcomes)
                /\ rt.calls = i
                /\ rt.status = "raised_permanent"
                /\ Len(rt.sleeps) = i - 1

\* The second call raised PermanentError.
C18_Witness ==
    /\ rt.status = "raised_permanent"
    /\ rt.outcomes = <<"transient", "permanent">>
    /\ rt.n = 3

\* C19: the sleep after failed attempt k lasts min(base_delay * 2^(k-1),
\* max_delay); there is none after the last attempt, so when all
\* max_attempts >= 1 attempts fail transiently the wrapper has slept
\* exactly max_attempts - 1 times.
C19_BackoffSchedule ==
    (Entered /\ rt.n >= 1) =>
        /\ Len(rt.sleeps) <= rt.n - 1
        /\ \A k \in 1..Len(rt.sleeps) :
            /\ rt.outcomes[k] = "transient"
            /\ rt.sleeps[k] = IF rt.base * (2 ^ (k - 1)) < rt.cap
                              THEN rt.base * (2 ^ (k - 1)) ELSE rt.cap
        /\ rt.status = "calling" => Len(rt.sleeps) = rt.calls
        /\ rt.status = "raised_transient" => Len(rt.sleeps) = rt.n - 1

\* Three attempts failed; the second sleep was capped by max_delay.
C19_Witness ==
    /\ rt.status = "raised_transient"
    /\ rt.n = 3 /\ rt.base = 2 /\ rt.cap = 3
    /\ rt.sleeps = <<2, 3>>


\* ------------------------------------------------- quarantine, text level
\* The quarantine_time line of a file's header, if it has one that parses.
HeaderTime(text) ==
    LET lines == SelectSeq(text.fm, IsTimeLine)
    IN IF lines = <<>> \/ lines[1].val = "garbage"
       THEN [kind |-> "None", t |-> 0]
       ELSE [kind |-> lines[1].val, t |-> lines[1].t]

\* C20: process_quarantine(min_age) moves back every Quarantine artifact
\* whose quarantine_time is at least min_age old, or missing or unparseable
\* (it leaves an artifact only for a header timestamp younger than min_age,
\* and it does not raise); the restored file has the artifact's header
\* fields, without quarantine_error and quarantine_time and with nothing
\* added, and its body; the returned list holds exactly what was moved.
C20_SweepRestoresArtifact ==
    /\ doc.status = "restored" =>
        /\ doc.file.fm = doc.orig.fm
        /\ doc.file.body = doc.orig.body
        /\ doc.moved = 1
    /\ doc.status = "skipped" =>
        /\ HeaderTime(doc.file).kind # "None"
        /\ doc.start - HeaderTime(doc.file).t < doc.min_age
        /\ doc.moved = 0
    /\ doc.status # "raised"


\* ------------------------------------------------- quarantine, folder level
\* A sweep is running, has moved nothing so far (so Quarantine is as it was
\* when the sweep started), and every file in Quarantine carries a timestamp
\* younger than the sweep's min_age.
SweepOfYoungItems ==
    /\ pc = "pq"
    /\ pq.moved = <<>>
    /\ \A n \in DOMAIN fs["Quarantine"] :
        /\ fs["Quarantine"][n].qtime # <<>>
        /\ pq.start - fs["Quarantine"][n].qtime[1] < pq.min_age

C22_QuarantinedIsReprocessed ==
    \A n \in ActionNames :
        (/\ Exists("Quarantine", n)
         /\ ~Exists("Needs_Action", n)
         /\ fs["Quarantine"][n].qtime # <<>>
         /\ now - fs["Quarantine"][n].qtime[1] >= 1)
        ~> Exists("Needs_Action", n)


\* ----------------------------------------------------------------- claim_item
\* What claim_item(name, from, to) has to do in this step, if the step is
\* such a call.
ClaimItemContract(name, from, to) ==
    IF ~Exists(from, name) \/ Exists(to, name)
    THEN /\ fs' = fs
         /\ ret'.op = "VaultSyncError"
    ELSE /\ ret' = Ret("claim_item", to, name)
         /\ name \notin DOMAIN fs'[from]
         /\ name \in DOMAIN fs'[to]
         /\ fs'[to][name] = fs[from][name]
         /\ \A f \in Folders : \A n \in DOMAIN fs[f] :
                (n # name \/ f # from) => n \in DOMAIN fs'[f] /\ fs'[f][n] = fs[f][n]
         /\ \A f \in Folders : DOMAIN fs'[f] \subseteq DOMAIN fs[f] \cup {name}

\* C23: claim_item(filename, from, to) fails with VaultSyncError and changes
\* nothing when the source does not exist or the destination folder already
\* holds that filename; otherwise it moves the artifact, content unchanged,
\* out of the source folder into the destination folder.
C23_ClaimItemMovesOrFails ==
    [][\A name \in PlanNames, from \in ClaimFolders, to \in ClaimFolders :
         claim_item_call(name, from, to) => ClaimItemContract(name, from, to)]_vars

\* A claim has been refused because the destination holds the name already,
\* with another content than the source.
C23_Witness ==
    /\ ret.op = "VaultSyncError"
    /\ ret.folder = "Approved"
    /\ Exists("Pending_Approval", ret.name)
    /\ Exists("Approved", ret.name)
    /\ fs["Pending_Approval"][ret.name] # fs["Approved"][ret.name]


\* ------------------------------------------------------------------ overwrite
\* This step replaces the content of a file that is already there.
Overwrites(f, n) ==
    /\ Exists(f, n)
    /\ n \in DOMAIN fs'[f]
    /\ fs'[f][n] # fs[f][n]

\* The transitions that put a file into a folder of the pipeline: the plan
\* written by process_action, the moves of approve, reject and
\* execute_approved, the restore of process_quarantine.
PipelineWrite ==
    PA_Write \/ approve_action \/ reject_action \/ EA_Begin \/ EA_Move \/ PQ_Item

\* C24: no transition overwrites an existing artifact: a step that puts a file
\* into Pending_Approval, Approved, Rejected, Done or Needs_Action leaves the
\* content of a file of that name that is already there unchanged.
C24_NoTransitionOverwrites ==
    [][PipelineWrite => \A f \in Folders : \A n \in AllNames : ~Overwrites(f, n)]_vars


\* ------------------------------------------------------- claim_to_in_progress
Holders(name) == {a \in Agents : name \in DOMAIN inProgress.held[a]}

Wins(name) == {i \in DOMAIN inProgress.won : inProgress.won[i][2] = name}

\* C25: however claim_to_in_progress calls of different agents interleave, at
\* most one call on a name succeeds and the artifact is in at most one
\* In_Progress/<agent>/ folder; a call made while some agent folder holds the
\* name already does not succeed and moves nothing.
C25_AtMostOneAgentClaims ==
    inProgress.status = "open" =>
        \A name \in ActionNames :
            /\ Cardinality(Holders(name)) <= 1
            /\ Cardinality(Wins(name)) <= 1
            /\ \A a \in Agents :
                (inProgress.calls[a].name = name /\ inProgress.calls[a].late) =>
                    /\ inProgress.calls[a].result \notin {"ok"}
                    /\ inProgress.calls[a].pc # "rename"

\* Both agents were past their scan of the same name when the first of them
\* renamed: one holds the artifact, the other one's rename has failed.
C25_Witness ==
    /\ inProgress.status = "open"
    /\ \E a, b \in Agents :
        /\ a # b
        /\ inProgress.calls[a].result = "ok"
        /\ inProgress.calls[b].result = "FileNotFoundError"
        /\ inProgress.calls[a].name = inProgress.calls[b].name


\* ------------------------------------------------ Updates/ and Dashboard.md
\* A step that writes Dashboard.md.
WritesDashboard == MU_Write \/ update_dashboard

\* C26: a process running in the cloud zone takes no step, in any cycle, that
\* writes Dashboard.md.
C26_CloudNeverWritesDashboard ==
    [][zone = "cloud" => ~WritesDashboard]_vars

\* The sequence consists of one section per update file of `updates`, with
\* that file's text, in filename order.
InFilenameOrder(sections, updates) ==
    /\ Len(sections) = Cardinality(DOMAIN updates)
    /\ \A i \in DOMAIN sections :
        /\ sections[i].update \in DOMAIN updates
        /\ sections[i].text = updates[sections[i].update]
    /\ \A i, j \in DOMAIN sections :
        i < j => UpdateRank(sections[i].update) < UpdateRank(sections[j].update)

\* merge_updates has just returned.
MergeReturned == board.status = "open" /\ board.at = "refresh" /\ board.result # <<>>

\* C27: when merge_updates returns, Dashboard.md is what it was before
\* followed by one section per update file that was in Updates/, in filename
\* order, those files are gone and their number is the result; with no update
\* file the result is 0 and Dashboard.md is as before.
C27_MergeAppendsInOrder ==
    MergeReturned =>
        LET was == board.before
            count == Cardinality(DOMAIN was.updates)
        IN /\ board.result = <<count>>
           /\ board.updates = <<>>
           /\ Len(board.dashboard) = Len(was.dashboard) + count
           /\ SubSeq(board.dashboard, 1, Len(was.dashboard)) = was.dashboard
           /\ InFilenameOrder(SubSeq(board.dashboard, Len(was.dashboard) + 1,
                                     Len(board.dashboard)), was.updates)

\* Two updates were merged behind existing content.
C27_Witness ==
    /\ MergeReturned
    /\ board.result = <<2>>
    /\ board.before.dashboard # <<>>
    /\ Len(board.dashboard) = 3


C29_MaterializedAtMostOnce ==
    watcher.status = "open" =>
        \A item \in Detections : watcher.made[item] <= 1


\* ------------------------------------------------------------- run_ralph_loop
\* Whether the chosen completion check held at the end of iteration k.
HeldAt(k) ==
    IF ralph.strategy = "promise"
    THEN ralph.outputs[k].promise = "TASK_COMPLETE"
    ELSE ralph.inDone[k]

\* C30: run_ralph_loop makes at most max_iterations invocations; when it
\* returns, it returns completed = true and the number of the first iteration
\* at which the chosen check held, having made no invocation after it, or, if
\* the check held at none, completed = false and iterations = max_iterations.
C30_LoopStopsAtCompletionOrMax ==
    ralph.status = "open" =>
        /\ ralph.calls <= ralph.max
        /\ ralph.at = "returned" =>
            LET held == {k \in DOMAIN ralph.outputs : HeldAt(k)}
            IN IF held # {}
               THEN /\ ralph.result[1].completed
                    /\ ralph.result[1].iterations \in held
                    /\ \A k \in held : ralph.result[1].iterations <= k
                    /\ ralph.calls = ralph.result[1].iterations
               ELSE /\ ~ralph.result[1].completed
                    /\ ralph.result[1].iterations = ralph.max
                    /\ ralph.calls = ralph.max

\* The loop has run to its limit without the task file reaching Done.
C30_Witness ==
    /\ ralph.status = "open"
    /\ ralph.at = "returned"
    /\ ralph.strategy = "file_movement"
    /\ ralph.max = MaxIterations
    /\ ralph.calls = MaxIterations
    /\ ~ralph.result[1].completed


\* C31: run_ralph_loop with the file_movement strategy and no task_file ends
\* with an error without having invoked the assistant and without having
\* written the state file or the iteration log.
C31_MissingTaskFileFailsFirst ==
    (ralph.status = "open" /\ ralph.strategy = "file_movement" /\ ~ralph.task_file) =>
        /\ ralph.at = "raised"
        /\ ralph.calls = 0
        /\ ralph.state_file = <<>>
        /\ ~ralph.log_written

\* The call has raised for the missing task_file although iterations were
\* allowed.
C31_Witness ==
    /\ ralph.status = "open"
    /\ ralph.strategy = "file_movement"
    /\ ~ralph.task_file
    /\ ralph.max = MaxIterations
    /\ ralph.at = "raised"


RECURSIVE EntriesUpTo(_)
EntriesUpTo(day) ==
    Len(journal.files[day]) + (IF day = 0 THEN 0 ELSE EntriesUpTo(day - 1))

\* C38: whenever no thread is inside log_action, the log holds one entry per
\* completed log_action call, however the calls of the main loop and of the
\* web worker interleaved.
C38_NoLogEntryLost ==
    (journal.status = "open" /\ \A t \in Threads : journal.threads[t].at = "idle") =>
        EntriesUpTo(MaxNow) = journal.completed


\* ------------------------------------------------------------ web handlers
\* What a request for `name` has to do in this step: move that plan and
\* nothing else and log one entry, or answer with an error and change nothing.
HandlerContract(name, to, action) ==
    IF Exists("Pending_Approval", name)
    THEN /\ ret'.op # "error"
         /\ name \notin DOMAIN fs'["Pending_Approval"]
         /\ name \in DOMAIN fs'[to]
         /\ fs'[to][name] = fs["Pending_Approval"][name]
         /\ \A f \in Folders : \A n \in AllNames :
                (n # name \/ f \notin {"Pending_Approval", to}) =>
                    /\ (n \in DOMAIN fs'[f]) = (n \in DOMAIN fs[f])
                    /\ n \in DOMAIN fs[f] => fs'[f][n] = fs[f][n]
         /\ log' = log (+) SetToBag({Entry("web_dashboard", action, name)})
    ELSE /\ ret'.op = "error"
         /\ fs' = fs
         /\ log' = log

\* C33: POST /approve/{name} moves exactly the plan Pending_Approval/name to
\* Approved/name and logs one approved entry, POST /reject/{name} likewise
\* to Rejected with a rejected entry; for a name that is not in
\* Pending_Approval the handler answers with an error, changes no folder and
\* logs nothing.
C33_HandlersMoveOnePlanOrFail ==
    [][\A name \in PlanNames :
        /\ approve_request(name) => HandlerContract(name, "Approved", "approved")
        /\ reject_request(name) => HandlerContract(name, "Rejected", "rejected")]_vars

\* A plan has been rejected through the web, and a request for a plan that is
\* only in Approved has been refused after it.
C33_Witness ==
    /\ ret.op = "error"
    /\ Exists("Approved", ret.name)
    /\ ~Exists("Pending_Approval", ret.name)
    /\ \E e \in BagToSet(log) : e.action = "rejected" /\ e.source # ret.name


\* ----------------------------------------------------------------------- Done
\* C34: Done is terminal: a file that is in Done is still there after every
\* step, with the content it had.
C34_DoneIsTerminal ==
    [][\A n \in AllNames :
        Exists("Done", n) =>
            /\ n \in DOMAIN fs'["Done"]
            /\ fs'["Done"][n] = fs["Done"][n]]_vars


\* ------------------------------------------------------------------ setup_vault
\* C35: a setup_vault call on an existing store leaves an existing
\* Company_Handbook.md and Agent_Memory.md as they are, removes no folder and
\* no file, and a call that follows another call changes nothing at all.
C35_SetupIsIdempotent ==
    [][setup_vault =>
        /\ store.handbook # <<>> => store'.handbook = store.handbook
        /\ store.agent_memory # <<>> => store'.agent_memory = store.agent_memory
        /\ store'.files = store.files
        /\ store.dirs \subseteq store'.dirs
        /\ store.settled =>
            /\ store'.dirs = store.dirs
            /\ store'.handbook = store.handbook
            /\ store'.agent_memory = store.agent_memory]_vars

\* The process has been started again on a store whose memory has learnt
\* something and whose Done holds a plan.
C35_Witness ==
    /\ store.status = "open"
    /\ store.settled
    /\ store.agent_memory = <<"edited">>
    /\ store.handbook = <<"default">>
    /\ <<"Done", "plan-1.md">> \in store.files
    /\ store.dirs = VAULT_FOLDERS

====
